---- MODULE Spec2Model ----
(***************************************************************************)
(* A model of the SOMA virtual machine (soma/vm.py): the Cell graph with   *)
(* its two instances Store and Register, CellRef aliasing,                 *)
(* auto-vivification, and Block execution with its Register save/restore.  *)
(*                                                                         *)
(* Cells live in a heap and are named by their index, which stands for the *)
(* Python object identity.  A dict of Cells (Store.root, Register.root,    *)
(* Cell.children) is a function from the names present to heap indices.    *)
(***************************************************************************)
EXTENDS Integers, Sequences, FiniteSets, TLC

(* ------------------------------ bounds -------------------------------- *)

\* Cells the host's direct calls may create on top of the pre-populated ones.
MaxHostCells == 2
\* Longest path the host hands to a storage operation.
MaxLen == 3
\* Cells a program run may create on top of the pre-populated ones.
MaxCells == 4
\* Deepest nesting of Block executions.
MaxDepth == 2
\* Longest AL the host's programs build up.
MaxAL == 2
\* Register objects a run may construct (the VM's own included).
MaxRegs == 3
\* Largest magnitude of an integer a builtin may compute.
MaxInt == 2
\* Longest string a builtin may compute.
MaxStrLen == 1
\* Largest count the counting loops run to.
MaxLoop == 2

(* ------------------------------ values -------------------------------- *)

\* A Thing is a tag with an integer payload: the integer of an int, the
\* heap index of a CellRef's Cell, the index of a Block or of a builtin.
Thing(t, v) == [t |-> t, v |-> v]
Void == Thing("Void", 0)
Nil == Thing("Nil", 0)
True_ == Thing("True", 0)
False_ == Thing("False", 0)
IntV(n) == Thing("int", n)
CellRef(c) == Thing("CellRef", c)
BlockV(b) == Thing("Block", b)
\* A str is the sequence of its characters.
StringV(s) == Thing("str", s)

IsCellRef(x) == x.t = "CellRef"
IsVoid(x) == x.t = "Void"

\* Names of the host functions wrapped in BuiltinBlocks by the Store.
BuiltinNames == << "block", "choose", "chain", "<", "+", "-", "*", "/", "%",
                   "print", "readLine", "debug.al.dump", "debug.chain",
                   "debug.choose", "concat", "toString", "toInt", "isVoid",
                   "isNil", "use" >>
BuiltinIndex(name) == CHOOSE i \in 1..Len(BuiltinNames) : BuiltinNames[i] = name
BuiltinBlock(name) == Thing("BuiltinBlock", BuiltinIndex(name))

\* Outcomes of an operation that raised RuntimeError.
UndefinedPath == Thing("Undefined-path", 0)
InvalidRegisterPath == Thing("Invalid-register-path", 0)
EmptyPath == Thing("Empty-path", 0)
\* The outcome of an operation that returned None.
Ok == Thing("None", 0)
ALUnderflow == Thing("AL-underflow", 0)
NotExecutable == Thing("Not-executable", 0)
\* exec_fn on a popped Void or Nil: "AL underflow: exec requires executable
\* Block on AL, got ..."
NothingToExecute == Thing("Not-executable", 1)
TypeMismatch == Thing("Type-mismatch", 0)
DivisionByZero == Thing("Divide/modulo-by-zero", 0)
NoCurrentBlock == Thing("block called at top-level", 0)
\* load_extension: "Extension '...' not found" and "... missing register()
\* function"; register_extension_builtin: the ValueError for a name outside
\* the namespace.
ExtensionNotFound == Thing("Extension-error", 0)
MissingRegister == Thing("Extension-error", 1)
OutsideNamespace == Thing("Extension-error", 2)
IsError(x) ==
    x.t \in {"Undefined-path", "Invalid-register-path", "Empty-path",
             "AL-underflow", "Not-executable", "Type-mismatch",
             "Divide/modulo-by-zero", "block called at top-level",
             "Extension-error"}

(* ------------------------------ Cells --------------------------------- *)

NoCell == 0
EmptyDict == [n \in {} |-> NoCell]
DictSet(d, k, c) == [n \in DOMAIN d \cup {k} |-> IF n = k THEN c ELSE d[n]]
DictDel(d, k) == [n \in DOMAIN d \ {k} |-> d[n]]
DictGet(d, k) == IF k \in DOMAIN d THEN d[k] ELSE NoCell

\* Cell.__init__: a value and no children.
Cell(value) == [value |-> value, children |-> EmptyDict]

SetValue(h, c, value) == [h EXCEPT ![c].value = value]
SetChildren(h, c, d) == [h EXCEPT ![c].children = d]

\* Auto-vivification that fills the new Cell with Nil.
VivifiedCellNil == Cell(Nil)
\* `Cell(value=Void)`, the Cell auto-vivification creates.
VivifiedCell == Cell(Void)

\* A traversal that never follows a CellRef.
DerefNever(h, c) == c
\* `if isinstance(cell.value, CellRef): cell = cell.value.cell`
Deref(h, c) == IF IsCellRef(h[c].value) THEN h[c].value.v ELSE c

(* ----------------------- Store._populate_builtins ---------------------- *)

\* The root entries in the order _populate_builtins creates them, with
\* "debug" last; the Cell of RootNames[i] is heap index i.
RootNames == << "block", "choose", "chain", "True", "False", "Nil", "Void",
                "<", "+", "-", "*", "/", "%", "print", "readLine", "concat",
                "toString", "toInt", "isVoid", "isNil", "use", "debug" >>
RootValue(name) ==
    CASE name = "True" -> True_
      [] name = "False" -> False_
      [] name = "Nil" -> Nil
      [] name = "Void" -> Void
      [] name = "debug" -> Void
      [] OTHER -> BuiltinBlock(name)
NumRoot == Len(RootNames)
DebugCell == NumRoot
DebugAlCell == NumRoot + 1
DebugAlDumpCell == NumRoot + 2
DebugChainCell == NumRoot + 3
DebugChooseCell == NumRoot + 4
NumBuiltinCells == NumRoot + 4

PopulatedHeap ==
    [c \in 1..NumBuiltinCells |->
        CASE c < DebugCell -> Cell(RootValue(RootNames[c]))
          [] c = DebugCell ->
               [value |-> Void,
                children |-> DictSet(DictSet(DictSet(EmptyDict,
                                 "al", DebugAlCell),
                                 "chain", DebugChainCell),
                                 "choose", DebugChooseCell)]
          [] c = DebugAlCell ->
               [value |-> Void,
                children |-> DictSet(EmptyDict, "dump", DebugAlDumpCell)]
          [] c = DebugAlDumpCell -> Cell(BuiltinBlock("debug.al.dump"))
          [] c = DebugChainCell -> Cell(BuiltinBlock("debug.chain"))
          [] c = DebugChooseCell -> Cell(BuiltinBlock("debug.choose"))]
PopulatedRoot ==
    [n \in {RootNames[i] : i \in 1..NumRoot} |->
        CHOOSE i \in 1..NumRoot : RootNames[i] = n]

\* The paths of the pre-populated Store.
BuiltinPaths ==
    {<<RootNames[i]>> : i \in 1..NumRoot}
      \cup {<<"debug", "al">>, <<"debug", "al", "dump">>,
            <<"debug", "chain">>, <<"debug", "choose">>}

(* --------------------------- path resolution --------------------------- *)

\* The dict a traversal stands in: Loc 0 is the root dict of the graph,
\* Loc c > 0 is the children dict of heap Cell c.
DictAt(h, root, loc) == IF loc = 0 THEN root ELSE h[loc].children

\* The loop and the final `current.get(...)` of Store._get_cell and of
\* Register._get_cell, started in the dict `current`.
RECURSIVE WalkGet(_, _, _)
WalkGet(h, current, comps) ==
    IF Len(comps) = 1 THEN DictGet(current, comps[1])
    ELSE IF Head(comps) \notin DOMAIN current THEN NoCell
    ELSE WalkGet(h, h[Deref(h, current[Head(comps)])].children, Tail(comps))

\* The loop and the final get-or-create of Store._get_or_create_cell and
\* of Register._get_or_create_cell, started in the dict at `loc`.
\* Yields the heap, the root dict and the terminal Cell.
RECURSIVE WalkCreate(_, _, _, _)
WalkCreate(h, root, loc, comps) ==
    LET name == Head(comps)
        missing == name \notin DOMAIN DictAt(h, root, loc)
        new == Len(h) + 1
        h1 == IF ~missing THEN h
              ELSE IF loc = 0 THEN Append(h, VivifiedCell)
              ELSE SetChildren(Append(h, VivifiedCell), loc,
                               DictSet(h[loc].children, name, new))
        root1 == IF missing /\ loc = 0 THEN DictSet(root, name, new) ELSE root
        cell == DictAt(h1, root1, loc)[name]
    IN  IF Len(comps) = 1
        THEN [heap |-> h1, root |-> root1, cell |-> cell]
        ELSE WalkCreate(h1, root1, Deref(h1, cell), Tail(comps))

\* Store._delete_cell and Register._delete_cell: the parent is reached
\* through the children dicts alone, no CellRef is followed.
RECURSIVE WalkDelete(_, _, _, _)
WalkDelete(h, root, loc, comps) ==
    LET name == Head(comps)
        dict == DictAt(h, root, loc)
    IN  IF name \notin DOMAIN dict THEN [heap |-> h, root |-> root]
        ELSE IF Len(comps) > 1 THEN WalkDelete(h, root, dict[name], Tail(comps))
        ELSE IF loc = 0 THEN [heap |-> h, root |-> DictDel(root, name)]
        ELSE [heap |-> SetChildren(h, loc, DictDel(dict, name)), root |-> root]

(* ------------------------------- Store --------------------------------- *)

\* What an operation leaves when it raised before changing anything.
Raised(h, root, error) == [heap |-> h, root |-> root, result |-> error]

StoreGetCell(h, root, comps) ==
    IF Len(comps) = 0 THEN NoCell ELSE WalkGet(h, root, comps)

StoreGetOrCreateCell(h, root, comps) == WalkCreate(h, root, 0, comps)

StoreDeleteCell(h, root, comps) ==
    IF Len(comps) = 0 THEN [heap |-> h, root |-> root]
    ELSE WalkDelete(h, root, 0, comps)

\* A permissive read: a missing path yields Void.
StoreReadValuePermissive(h, root, comps) ==
    LET cell == StoreGetCell(h, root, comps)
    IN  IF cell = NoCell THEN Void ELSE h[cell].value
StoreReadValue(h, root, comps) ==
    LET cell == StoreGetCell(h, root, comps)
    IN  IF cell = NoCell THEN UndefinedPath ELSE h[cell].value

\* A write that always follows the CellRef the Cell holds.
WriteThroughAlways(h, cell, value) ==
    IF IsCellRef(h[cell].value)
    THEN SetValue(h, h[cell].value.v, value)
    ELSE SetValue(h, cell, value)
\* A write that never follows the CellRef the Cell holds.
WriteThroughNever(h, cell, value) == SetValue(h, cell, value)
\* A write_value that drops the children of the Cell it writes.
WriteThroughReplacing(h, cell, value) ==
    SetChildren(SetValue(h, cell, value), cell, EmptyDict)
\* The write shared by Store.write_value and Register.write_value, on the
\* terminal Cell that get-or-create returned.
WriteThrough(h, cell, value) ==
    IF IsCellRef(h[cell].value) /\ ~IsCellRef(value)
    THEN SetValue(h, h[cell].value.v, value)
    ELSE SetValue(h, cell, value)

\* A write_ref that replaces the value and keeps the children.
ReplaceCellValueOnly(h, cell, value) == SetValue(h, cell, value)
\* The replacement shared by Store.write_ref and Register.write_ref.
ReplaceCell(h, cell, value) ==
    SetChildren(SetValue(h, cell, value), cell, EmptyDict)

StoreReadRef(h, root, comps) ==
    IF Len(comps) = 0 THEN Raised(h, root, EmptyPath)
    ELSE LET r == StoreGetOrCreateCell(h, root, comps)
         IN  [heap |-> r.heap, root |-> r.root, result |-> CellRef(r.cell)]

StoreWriteValue(h, root, comps, value) ==
    IF Len(comps) = 0 THEN Raised(h, root, EmptyPath)
    ELSE LET r == StoreGetOrCreateCell(h, root, comps)
         IN  [heap |-> WriteThrough(r.heap, r.cell, value), root |-> r.root,
              result |-> Ok]

StoreWriteRef(h, root, comps, value) ==
    IF IsVoid(value)
    THEN LET d == StoreDeleteCell(h, root, comps)
         IN  [heap |-> d.heap, root |-> d.root, result |-> Ok]
    ELSE IF Len(comps) = 0 THEN Raised(h, root, EmptyPath)
    ELSE LET r == StoreGetOrCreateCell(h, root, comps)
         IN  [heap |-> ReplaceCell(r.heap, r.cell, value), root |-> r.root,
              result |-> Ok]

(* ------------------------------ Register ------------------------------- *)

\* A validation that only rejects the empty path.
ValidRegisterPathLoose(comps) == Len(comps) > 0
\* Register._validate_register_path
ValidRegisterPath(comps) == Len(comps) > 0 /\ comps[1] = "_"

\* A root resolution that stays on the literal root Cell.
ResolveRegisterRootLiteral(h, root, auto_vivify) ==
    IF "_" \notin DOMAIN root /\ ~auto_vivify
    THEN [heap |-> h, root |-> root, cell |-> NoCell]
    ELSE LET missing == "_" \notin DOMAIN root
             h1 == IF missing THEN Append(h, VivifiedCell) ELSE h
             root1 == IF missing THEN DictSet(root, "_", Len(h) + 1) ELSE root
         IN  [heap |-> h1, root |-> root1, cell |-> root1["_"]]
\* Register._resolve_register_root: the Cell whose children the traversal
\* starts from (NoCell for None), with the heap and root dict after the
\* root Cell was created when auto_vivify asks for it.
ResolveRegisterRoot(h, root, auto_vivify) ==
    IF "_" \notin DOMAIN root /\ ~auto_vivify
    THEN [heap |-> h, root |-> root, cell |-> NoCell]
    ELSE LET missing == "_" \notin DOMAIN root
             h1 == IF missing THEN Append(h, VivifiedCell) ELSE h
             root1 == IF missing THEN DictSet(root, "_", Len(h) + 1) ELSE root
         IN  [heap |-> h1, root |-> root1, cell |-> Deref(h1, root1["_"])]

RegisterGetCell(h, root, comps) ==
    IF Len(comps) = 0 THEN NoCell
    ELSE IF Len(comps) = 1
    THEN IF "_" \notin DOMAIN root THEN NoCell ELSE Deref(h, root["_"])
    ELSE LET r == ResolveRegisterRoot(h, root, FALSE)
         IN  IF r.cell = NoCell THEN NoCell
             ELSE WalkGet(h, h[r.cell].children, Tail(comps))

\* A get-or-create that descends from the literal root Cell.
RegisterGetOrCreateCellLiteral(h, root, comps) ==
    LET r == ResolveRegisterRoot(h, root, TRUE)
    IN  IF Len(comps) = 1 THEN r
        ELSE LET w == WalkCreate(r.heap, r.root, r.root["_"], Tail(comps))
             IN  [heap |-> w.heap, root |-> r.root, cell |-> w.cell]
RegisterGetOrCreateCell(h, root, comps) ==
    LET r == ResolveRegisterRoot(h, root, TRUE)
    IN  IF Len(comps) = 1 THEN r
        ELSE LET w == WalkCreate(r.heap, r.root, r.cell, Tail(comps))
             IN  [heap |-> w.heap, root |-> r.root, cell |-> w.cell]

RegisterDeleteCell(h, root, comps) ==
    IF Len(comps) = 0 THEN [heap |-> h, root |-> root]
    ELSE WalkDelete(h, root, 0, comps)

RegisterReadValue(h, root, comps) ==
    IF ~ValidRegisterPath(comps) THEN InvalidRegisterPath
    ELSE LET cell == RegisterGetCell(h, root, comps)
         IN  IF cell = NoCell THEN UndefinedPath ELSE h[cell].value

RegisterReadRef(h, root, comps) ==
    IF ~ValidRegisterPath(comps) THEN Raised(h, root, InvalidRegisterPath)
    ELSE LET r == RegisterGetOrCreateCell(h, root, comps)
         IN  [heap |-> r.heap, root |-> r.root, result |-> CellRef(r.cell)]

RegisterWriteValue(h, root, comps, value) ==
    IF ~ValidRegisterPath(comps) THEN Raised(h, root, InvalidRegisterPath)
    ELSE LET r == RegisterGetOrCreateCell(h, root, comps)
         IN  [heap |-> WriteThrough(r.heap, r.cell, value), root |-> r.root,
              result |-> Ok]

RegisterWriteRef(h, root, comps, value) ==
    IF ~ValidRegisterPath(comps) THEN Raised(h, root, InvalidRegisterPath)
    ELSE IF IsVoid(value)
    THEN LET d == RegisterDeleteCell(h, root, comps)
         IN  [heap |-> d.heap, root |-> d.root, result |-> Ok]
    ELSE LET r == RegisterGetOrCreateCell(h, root, comps)
         IN  [heap |-> ReplaceCell(r.heap, r.cell, value), root |-> r.root,
              result |-> Ok]

\* The four operations of either graph behind one name each, as the
\* compiled statements reach them through `storage`.
IsRegisterPath(comps) == Len(comps) > 0 /\ comps[1] = "_"
GetCell(h, root, on, comps) ==
    IF on = "Register" THEN RegisterGetCell(h, root, comps)
    ELSE StoreGetCell(h, root, comps)
ReadValue(h, root, on, comps) ==
    IF on = "Register" THEN RegisterReadValue(h, root, comps)
    ELSE StoreReadValue(h, root, comps)
\* A read_ref that fails on a path with no Cell.
ReadRefStrict(h, root, on, comps) ==
    IF GetCell(h, root, on, comps) = NoCell THEN Raised(h, root, UndefinedPath)
    ELSE IF on = "Register" THEN RegisterReadRef(h, root, comps)
    ELSE StoreReadRef(h, root, comps)
\* A write_ref that installs a new Cell at the path: it removes the entry
\* the path ends on and creates the Cell again.
WriteRefInstalling(h, root, on, comps, value) ==
    LET d == IF on = "Register" THEN RegisterWriteRef(h, root, comps, Void)
             ELSE StoreWriteRef(h, root, comps, Void)
    IN  IF IsVoid(value) \/ IsError(d.result) THEN d
        ELSE IF on = "Register"
        THEN RegisterWriteRef(d.heap, d.root, comps, value)
        ELSE StoreWriteRef(d.heap, d.root, comps, value)
ReadRef(h, root, on, comps) ==
    IF on = "Register" THEN RegisterReadRef(h, root, comps)
    ELSE StoreReadRef(h, root, comps)
WriteValue(h, root, on, comps, value) ==
    IF on = "Register" THEN RegisterWriteValue(h, root, comps, value)
    ELSE StoreWriteValue(h, root, comps, value)
WriteRef(h, root, on, comps, value) ==
    IF on = "Register" THEN RegisterWriteRef(h, root, comps, value)
    ELSE StoreWriteRef(h, root, comps, value)

\* A read_value that resolves its path as read_ref does.
ReadValueVivifying(h, root, on, comps) ==
    LET r == ReadRef(h, root, on, comps)
    IN  IF IsError(r.result) THEN r
        ELSE [heap |-> r.heap, root |-> r.root,
              result |-> r.heap[r.result.v].value]
\* What a call of read_value leaves: the graph it found, `_get_cell` assigns
\* nothing, and the value returned or the error raised.
ReadValueCall(h, root, on, comps) ==
    Raised(h, root, ReadValue(h, root, on, comps))

(* ------------------------------- state --------------------------------- *)

VARIABLES
    heap,           \* the Cells, by identity
    store,          \* vm.store.root
    regs,           \* root dict of every live Register object, by identity
    register,       \* vm.register
    current_block,  \* vm.current_block, 0 for None
    al,             \* vm.al
    frames,         \* the Block.execute calls in progress, innermost last
    error,          \* the RuntimeError propagating, Ok for none
    alive,          \* number of Register objects in existence
    program,        \* the statements of the programs the host has compiled
    loaded_extensions,  \* vm.loaded_extensions
    last            \* the storage operation performed by the last step

vars ==
    <<heap, store, regs, register, current_block, al, frames, error, alive,
      program, loaded_extensions, last>>

NoBlock == 0
TopRegister == 1

NoOp ==
    [op |-> "none", on |-> "Store", path |-> <<>>, value |-> Void,
     cell |-> NoCell, old |-> Void, created |-> 0, result |-> Ok]

\* VM.__init__ with load_stdlib=False.
Constructed ==
    /\ heap = PopulatedHeap
    /\ store = PopulatedRoot
    /\ regs = [r \in {TopRegister} |-> EmptyDict]
    /\ register = TopRegister
    /\ current_block = NoBlock
    /\ al = <<>>
    /\ frames = <<>>
    /\ loaded_extensions = {}
    /\ error = Ok
    /\ alive = 1
    /\ last = NoOp
\* The host that calls the storage operations compiles no program.
Init == Constructed /\ program = {}

(* ---------------- the storage interface called by the host -------------- *)

\* Path components and values the host code calls the operations with.
PathNames == {"a", "b"}
SeqsUpTo(S, n) == UNION {[1..k -> S] : k \in 0..n}
StorePaths == SeqsUpTo(PathNames, MaxLen) \ {<<>>}
RegisterPaths == {<<"_">> \o s : s \in SeqsUpTo(PathNames, MaxLen - 1)}
PathsOn(on) == IF on = "Register" THEN RegisterPaths ELSE StorePaths
Graphs == {"Store", "Register"}

\* Cells created by the run; every one of them was created by a
\* get-or-create on some path, so a read_ref of that path hands its
\* CellRef to the host.
UserCells == (NumBuiltinCells + 1)..Len(heap)
CallValues == {Void, IntV(7)} \cup {CellRef(c) : c \in UserCells}

RootOf(on) == IF on = "Register" THEN regs[register] ELSE store

\* The new state of the graph `on` after an operation left heap and root.
Becomes(on, r) ==
    /\ heap' = r.heap
    /\ IF on = "Register"
       THEN regs' = [regs EXCEPT ![register] = r.root] /\ store' = store
       ELSE store' = r.root /\ regs' = regs

\* The record of an operation on path P: the terminal Cell it resolved,
\* the value that Cell held before (Undefined-path if it was missing) and
\* the number of Cells the operation created.
Logged(op, on, P, V, cell, r) ==
    LET before == GetCell(heap, RootOf(on), on, P)
    IN  [op |-> op, on |-> on, path |-> P, value |-> V, cell |-> cell,
         old |-> IF before = NoCell THEN UndefinedPath ELSE heap[before].value,
         created |-> Len(r.heap) - Len(heap),
         result |-> r.result]

\* The host calls one operation of vm.store or vm.register, as the unit
\* tests and the extensions do, and goes on once the call has returned.
Called(on, r) ==
    /\ last.op = "none"
    /\ Len(r.heap) <= NumBuiltinCells + MaxHostCells
    /\ Becomes(on, r)
    /\ UNCHANGED <<loaded_extensions, program, register, current_block, al, frames, error, alive>>

HostReadValue ==
    \E on \in Graphs : \E P \in PathsOn(on) :
        LET r == ReadValueCall(heap, RootOf(on), on, P)
        IN  /\ Called(on, r)
            /\ last' = Logged("read_value", on, P, Void,
                              GetCell(heap, RootOf(on), on, P), r)

HostReadRef ==
    \E on \in Graphs : \E P \in PathsOn(on) :
        LET r == ReadRef(heap, RootOf(on), on, P)
        IN  /\ Called(on, r)
            /\ last' = Logged("read_ref", on, P, Void, r.result.v, r)

HostWriteValue ==
    \E on \in Graphs : \E P \in PathsOn(on) : \E V \in CallValues :
        LET r == WriteValue(heap, RootOf(on), on, P, V)
            g == ReadRef(heap, RootOf(on), on, P)
        IN  /\ Called(on, r)
            /\ last' = Logged("write_value", on, P, V, g.result.v, r)

HostWriteRef ==
    \E on \in Graphs : \E P \in PathsOn(on) : \E V \in CallValues :
        LET r == WriteRef(heap, RootOf(on), on, P, V)
            g == ReadRef(heap, RootOf(on), on, P)
        IN  /\ Called(on, r)
            /\ last' = Logged("write_ref", on, P, V,
                              IF IsVoid(V) THEN GetCell(heap, RootOf(on), on, P)
                              ELSE g.result.v, r)

\* Paths Register._validate_register_path rejects.
InvalidRegisterPaths == {<<>>, <<"_a">>, <<"a", "_">>}
RegisterCalls == {"read_value", "read_ref", "write_value", "write_ref"}
RegisterCall(call, h, root, P, V) ==
    IF call = "read_value" THEN ReadValueCall(h, root, "Register", P)
    ELSE IF call = "read_ref" THEN RegisterReadRef(h, root, P)
    ELSE IF call = "write_value" THEN RegisterWriteValue(h, root, P, V)
    ELSE RegisterWriteRef(h, root, P, V)
\* The host calls an operation of vm.register with a malformed path.
HostRegisterInvalid ==
    \E call \in RegisterCalls : \E P \in InvalidRegisterPaths :
    \E V \in {Void, IntV(7)} :
        LET r == RegisterCall(call, heap, RootOf("Register"), P, V)
        IN  /\ Called("Register", r)
            /\ call \in {"read_value", "read_ref"} => V = Void
            /\ last' = [op |-> "rejected", call |-> call, on |-> "Register",
                        path |-> P, value |-> V, result |-> r.result]

HostReturn ==
    /\ last.op # "none"
    /\ last' = NoOp
    /\ UNCHANGED <<loaded_extensions, program, heap, store, regs, register, current_block, al, frames,
                   error, alive>>

NextCells ==
    \/ HostReadValue \/ HostReadRef \/ HostWriteValue \/ HostWriteRef
    \/ HostRegisterInvalid \/ HostReturn

SpecCells == Init /\ [][NextCells]_vars

(* ------------------------- programs and Blocks ------------------------- *)

\* A statement of the AST the compiler consumes.  k is the node kind, tk the
\* kind of the target of an Exec or Store node, n the literal integer or the
\* Block literal, p the path components.
Stmt(k, tk, n, p) == [k |-> k, tk |-> tk, n |-> n, p |-> p]
IntNode(n) == Stmt("IntNode", "", n, <<>>)
StringNode(s) == Stmt("StringNode", "", 0, s)
BlockNode(b) == Stmt("BlockNode", "", b, <<>>)
ValuePath(p) == Stmt("ValuePath", "", 0, p)
ReferencePath(p) == Stmt("ReferencePath", "", 0, p)
ExecBlock(b) == Stmt("ExecNode", "BlockNode", b, <<>>)
ExecPath(p) == Stmt("ExecNode", "ValuePath", 0, p)
StoreValue(p) == Stmt("StoreNode", "ValuePath", 0, p)
StoreRef(p) == Stmt("StoreNode", "ReferencePath", 0, p)

\* The Block literals of the programs run, by the Block object compile_node
\* builds for each:
\*   Outer     { 1 !_.n >{ 2 !_.n } _.n }
\*   Inner     { 2 !_.n }
\*   Borrower  { !_. 5 !_.n _.n }      takes over the Register handed on the AL
\*   Keeper    { !_.n 5 !_.n }         keeps the AL top in its own Register
\*   Again     { >a }                  runs whatever the Store holds at `a`
\*   Effect    { 1 !counter }          has an effect on the Store
\*   Forever   { >block }              leaves itself on the AL
\*   SetUp     { 0 !counter (x) !text { 1 !counter } !code code. !alias }
\*   ScenarioE { 1 2 3 Void 100 200 300 >choose }
\*   Short     { !counter }            needs one value on the AL
\*   Select    { { 1 !counter } { >block } >choose }
\*                                     needs the condition on the AL
\*   Loop(N)   { counter 1 >+ !counter counter N >< >block Nil >choose }
\*             counts in the Store and leaves itself until the count is N
Outer == 1
Inner == 2
Borrower == 3
Keeper == 4
Again == 5
Effect == 6
Forever == 7
SetUp == 8
ScenarioE == 9
Short == 10
Select == 11
Loop(N) == 11 + N
Loops == {Loop(N) : N \in 1..MaxLoop}
Blocks ==
    {Outer, Inner, Borrower, Keeper, Again, Effect, Forever, SetUp, ScenarioE,
     Short, Select} \cup Loops
BlockBody(b) ==
    CASE b = Outer ->
           << IntNode(1), StoreValue(<<"_", "n">>), ExecBlock(Inner),
              ValuePath(<<"_", "n">>) >>
      [] b = Inner -> << IntNode(2), StoreValue(<<"_", "n">>) >>
      [] b = Borrower ->
           << StoreRef(<<"_">>), IntNode(5), StoreValue(<<"_", "n">>),
              ValuePath(<<"_", "n">>) >>
      [] b = Keeper ->
           << StoreValue(<<"_", "n">>), IntNode(5), StoreValue(<<"_", "n">>) >>
      [] b = Again -> << ExecPath(<<"a">>) >>
      [] b = Effect -> << IntNode(1), StoreValue(<<"counter">>) >>
      [] b = Forever -> << ExecPath(<<"block">>) >>
      [] b = SetUp ->
           << IntNode(0), StoreValue(<<"counter">>),
              StringNode(<<"x">>), StoreValue(<<"text">>),
              BlockNode(Effect), StoreValue(<<"code">>),
              ReferencePath(<<"code">>), StoreValue(<<"alias">>) >>
      [] b = ScenarioE ->
           << IntNode(1), IntNode(2), IntNode(3), ValuePath(<<"Void">>),
              IntNode(100), IntNode(200), IntNode(300),
              ExecPath(<<"choose">>) >>
      [] b = Short -> << StoreValue(<<"counter">>) >>
      [] b = Select ->
           << BlockNode(Effect), BlockNode(Forever), ExecPath(<<"choose">>) >>
      [] b \in Loops ->
           << ValuePath(<<"counter">>), IntNode(1), ExecPath(<<"+">>),
              StoreValue(<<"counter">>), ValuePath(<<"counter">>),
              IntNode(b - 11), ExecPath(<<"<">>), ExecPath(<<"block">>),
              ValuePath(<<"Nil">>), ExecPath(<<"choose">>) >>

\* The number of values by which a run of the Block lengthens the AL.
Growth(b) == IF b = ScenarioE THEN 5 ELSE IF b = Outer THEN 1 ELSE 0

\* The statements of the top-level programs handed to VM.execute.
TopStatements ==
    {IntNode(1), ReferencePath(<<"_">>), ValuePath(<<"_", "n">>),
     StoreValue(<<"_", "n">>), StoreValue(<<"a">>), ExecPath(<<"a">>),
     BlockNode(Again), ExecBlock(Outer), ExecBlock(Borrower),
     ExecBlock(Keeper)}

\* The statements of the programs that use the control builtins.
ControlStatements ==
    {ValuePath(<<"Nil">>), ValuePath(<<"Void">>), ValuePath(<<"True">>),
     ValuePath(<<"False">>), IntNode(0), StringNode(<<>>),
     BlockNode(Effect), BlockNode(Forever),
     ValuePath(<<"alias">>), ValuePath(<<"text">>), ValuePath(<<"choose">>),
     ValuePath(<<"chain">>),
     ExecBlock(SetUp), ExecBlock(ScenarioE), ExecBlock(Select),
     ExecPath(<<"Nil">>), ExecPath(<<"Void">>), ExecPath(<<"True">>),
     ExecPath(<<"False">>), ExecPath(<<"counter">>), ExecPath(<<"text">>),
     ExecPath(<<"alias">>), ExecPath(<<"code">>),
     ExecPath(<<"block">>), ExecPath(<<"choose">>), ExecPath(<<"chain">>)}
    \cup {BlockNode(b) : b \in Loops}

\* The statements of the programs that compute with the FFI builtins.
BuiltinStatements ==
    {ValuePath(<<"Nil">>), ValuePath(<<"Void">>), ValuePath(<<"True">>),
     ValuePath(<<"False">>), IntNode(0), IntNode(1), IntNode(-2),
     StringNode(<<>>), ExecBlock(Short)}
    \cup {ExecPath(<<name>>) :
             name \in {"choose", "chain", "<", "+", "-", "*", "/", "%",
                       "print", "concat", "toString", "toInt", "isVoid",
                       "isNil"}}

(* ------------------------- programs in order --------------------------- *)

\* Block literals of the programs below:
\*   Writer   { 1 !counter >{ 2 !counter >Nil } 3 !counter }
\*   Failing  { 2 !counter >Nil }
\*   Deep     { 1 !counter >{ 2 !counter } counter }
\*   Deeper   { 2 !counter }
Writer == 21
Failing == 22
Deep == 23
Deeper == 24
\* Block literals of the programs that hand CellRefs and Blocks about:
\*   Escaper    { 1 !_ _. }            leaves a CellRef to its Register root
\*   Stasher    { 1 !_ _. !kept }      keeps such a CellRef in the Store
\*   Outermost  { 2 !_ 5 >{ 3 !_ 7 !counter >Nil } 8 !counter }
\*   Innermost  { 3 !_ 7 !counter >Nil }
\*   Maker      { { >block } }         pushes the Block of its literal
\*   Self       { >block }
\*   Stepper    { 1 !_ _ counter >+ !counter counter 2 >< >block Nil >choose }
\*              writes its Register and counts in the Store up to 2
\*   Leaver     { 1 !_ { _ } }         writes its Register and leaves Reader
\*   Reader     { _ }                  reads its Register
Escaper == 31
Stasher == 32
Outermost == 33
Innermost == 34
Maker == 35
Self == 36
Stepper == 37
Leaver == 38
Reader == 39
FrameBlocks ==
    {Escaper, Stasher, Outermost, Innermost, Maker, Self, Stepper, Leaver,
     Reader}
ProgramBlocks == {Writer, Failing, Deep, Deeper} \cup FrameBlocks
ProgramBlockBody(b) ==
    CASE b = Writer ->
           << IntNode(1), StoreValue(<<"counter">>), ExecBlock(Failing),
              IntNode(3), StoreValue(<<"counter">>) >>
      [] b = Failing ->
           << IntNode(2), StoreValue(<<"counter">>), ExecPath(<<"Nil">>) >>
      [] b = Deep ->
           << IntNode(1), StoreValue(<<"counter">>), ExecBlock(Deeper),
              ValuePath(<<"counter">>) >>
      [] b = Deeper -> << IntNode(2), StoreValue(<<"counter">>) >>
      [] b = Escaper ->
           << IntNode(1), StoreValue(<<"_">>), ReferencePath(<<"_">>) >>
      [] b = Stasher ->
           << IntNode(1), StoreValue(<<"_">>), ReferencePath(<<"_">>),
              StoreValue(<<"kept">>) >>
      [] b = Outermost ->
           << IntNode(2), StoreValue(<<"_">>), IntNode(5),
              ExecBlock(Innermost), IntNode(8), StoreValue(<<"counter">>) >>
      [] b = Innermost ->
           << IntNode(3), StoreValue(<<"_">>), IntNode(7),
              StoreValue(<<"counter">>), ExecPath(<<"Nil">>) >>
      [] b = Maker -> << BlockNode(Self) >>
      [] b = Self -> << ExecPath(<<"block">>) >>
      [] b = Stepper ->
           << IntNode(1), StoreValue(<<"_">>), ValuePath(<<"_">>),
              ValuePath(<<"counter">>), ExecPath(<<"+">>),
              StoreValue(<<"counter">>), ValuePath(<<"counter">>),
              IntNode(2), ExecPath(<<"<">>), ExecPath(<<"block">>),
              ValuePath(<<"Nil">>), ExecPath(<<"choose">>) >>
      [] b = Leaver ->
           << IntNode(1), StoreValue(<<"_">>), BlockNode(Reader) >>
      [] b = Reader -> << ValuePath(<<"_">>) >>

\* Names of the extension modules the programs ask for, as the strings
\* they push: a module with a register hook and setup source, one with a
\* hook only, one without a hook, one whose hook registers a name outside
\* the namespace, one whose setup source fails, and a name with no module.
Full == <<"p">>
HookOnly == <<"t">>
NoHook == <<"e">>
BadHook == <<"h">>
BadSetup == <<"s">>
Unknown == <<"z">>
ExtensionNames == {Full, HookOnly, NoHook, BadHook, BadSetup, Unknown}

\* The programs the host compiles and hands to VM.execute, and the setup
\* sources of the extension modules:
\*   Twice(x)   (x) >use (x) >use
\*   Alias      a. !use.a
\*   Call       >use.a
\*   Abort      0 !counter >{ 1 !counter >{ 2 !counter >Nil } 3 !counter }
\*              4 !counter
\*   Visible    >{ 1 !counter >{ 2 !counter } counter } counter
\*   Setup      { 1 !counter } !use.b
\*   SetupFails 5 !use.b >Nil
Twice(x) == <<"Twice", x>>
Alias == <<"Alias", <<>>>>
Call == <<"Call", <<>>>>
Abort == <<"Abort", <<>>>>
Visible == <<"Visible", <<>>>>
Setup == <<"Setup", <<>>>>
SetupFails == <<"SetupFails", <<>>>>
HostPrograms ==
    {Twice(x) : x \in ExtensionNames} \cup {Alias, Call, Abort, Visible}
\* The programs that hand CellRefs and Blocks about:
\*   Persist     1 !a.b a. !r Void !a.
\*   Escape      >{ 1 !_ _. }
\*   Stash       >{ 1 !_ _. !kept } kept
\*   Fails       1 !_ >{ 2 !_ 5 >{ 3 !_ 7 !counter >Nil } 8 !counter }
\*               9 !counter
\*   Literal     >{ { >block } } !made >made >{ { >block } }
\*   Trampoline  1 !_ 0 !counter { ...Stepper... } >chain
\*   Peek        { 1 !_ { _ } } >chain
Persist == <<"Persist", <<>>>>
Escape == <<"Escape", <<>>>>
Stash == <<"Stash", <<>>>>
Fails == <<"Fails", <<>>>>
Literal == <<"Literal", <<>>>>
Trampoline == <<"Trampoline", <<>>>>
Peek_ == <<"Peek", <<>>>>
FramePrograms ==
    {Persist, Escape, Stash, Fails, Literal, Trampoline, Peek_}
\* The programs that run the debug builtins:
\*   Decide(c)  c 1 2 >debug.choose !out     for each condition c
\*   Stop       Nil >debug.chain
\*   Spin       { >block } >debug.chain
\*   Count      0 !counter { ...Loop(2)... } >debug.chain !out
\*   Add        1 1 + >debug.chain !out
\*   Break      { 2 !counter >Nil } >debug.chain
ConditionNames == {"True", "False", "Nil", "Void", "0", "1", "", "a", "{}"}
Condition(c) ==
    CASE c \in {"True", "False", "Nil", "Void"} -> ValuePath(<<c>>)
      [] c = "0" -> IntNode(0)
      [] c = "1" -> IntNode(1)
      [] c = "" -> StringNode(<<>>)
      [] c = "a" -> StringNode(<<"a">>)
      [] c = "{}" -> BlockNode(Self)
Decide(c) == <<"Decide", <<c>>>>
Stop == <<"Stop", <<>>>>
Spin == <<"Spin", <<>>>>
Count == <<"Count", <<>>>>
Add == <<"Add", <<>>>>
Break == <<"Break", <<>>>>
DebugPrograms ==
    {Decide(c) : c \in ConditionNames} \cup {Stop, Spin, Count, Add, Break}
ProgramBody(p) ==
    CASE p[1] = "Twice" ->
           << StringNode(p[2]), ExecPath(<<"use">>),
              StringNode(p[2]), ExecPath(<<"use">>) >>
      [] p = Alias -> << ReferencePath(<<"a">>), StoreValue(<<"use", "a">>) >>
      [] p = Call -> << ExecPath(<<"use", "a">>) >>
      [] p = Abort ->
           << IntNode(0), StoreValue(<<"counter">>), ExecBlock(Writer),
              IntNode(4), StoreValue(<<"counter">>) >>
      [] p = Visible -> << ExecBlock(Deep), ValuePath(<<"counter">>) >>
      [] p = Setup -> << BlockNode(Effect), StoreValue(<<"use", "b">>) >>
      [] p = SetupFails ->
           << IntNode(5), StoreValue(<<"use", "b">>), ExecPath(<<"Nil">>) >>
      [] p = Persist ->
           << IntNode(1), StoreValue(<<"a", "b">>), ReferencePath(<<"a">>),
              StoreValue(<<"r">>), ValuePath(<<"Void">>), StoreRef(<<"a">>) >>
      [] p = Escape -> << ExecBlock(Escaper) >>
      [] p = Stash -> << ExecBlock(Stasher), ValuePath(<<"kept">>) >>
      [] p = Fails ->
           << IntNode(1), StoreValue(<<"_">>), ExecBlock(Outermost),
              IntNode(9), StoreValue(<<"counter">>) >>
      [] p = Literal ->
           << ExecBlock(Maker), StoreValue(<<"made">>),
              ExecPath(<<"made">>), ExecBlock(Maker) >>
      [] p = Trampoline ->
           << IntNode(1), StoreValue(<<"_">>), IntNode(0),
              StoreValue(<<"counter">>), BlockNode(Stepper),
              ExecPath(<<"chain">>) >>
      [] p = Peek_ -> << BlockNode(Leaver), ExecPath(<<"chain">>) >>
      [] p[1] = "Decide" ->
           << Condition(p[2][1]), IntNode(1), IntNode(2),
              ExecPath(<<"debug", "choose">>), StoreValue(<<"out">>) >>
      [] p = Stop ->
           << ValuePath(<<"Nil">>), ExecPath(<<"debug", "chain">>) >>
      [] p = Spin -> << BlockNode(Self), ExecPath(<<"debug", "chain">>) >>
      [] p = Count ->
           << IntNode(0), StoreValue(<<"counter">>), BlockNode(Loop(2)),
              ExecPath(<<"debug", "chain">>), StoreValue(<<"out">>) >>
      [] p = Add ->
           << IntNode(1), IntNode(1), ValuePath(<<"+">>),
              ExecPath(<<"debug", "chain">>), StoreValue(<<"out">>) >>
      [] p = Break ->
           << BlockNode(Failing), ExecPath(<<"debug", "chain">>) >>

(* ------------------------------ builtins ------------------------------- *)

\* What a host function leaves: the AL, and the RuntimeError it raised if any.
Done(stack) == [al |-> stack, error |-> Ok]
Failed(stack, e) == [al |-> stack, error |-> e]
\* The AL below its n topmost values, and the value k places below the top.
Under(stack, n) == SubSeq(stack, 1, Len(stack) - n)
FromTop(stack, k) == stack[Len(stack) - k]
IsInt(x) == x.t = "int"
IsStr(x) == x.t = "str"
Bool(b) == IF b THEN True_ ELSE False_

\* Python's // and % on integers: the quotient is rounded towards minus
\* infinity and the remainder takes the sign of the divisor.
\* A quotient rounded towards zero.
TruncDiv(a, b) ==
    LET abs(x) == IF x < 0 THEN 0 - x ELSE x
    IN  IF (a < 0) = (b < 0) THEN abs(a) \div abs(b)
        ELSE 0 - (abs(a) \div abs(b))
FloorDiv(a, b) == IF b > 0 THEN a \div b ELSE (0 - a) \div (0 - b)
FloorMod(a, b) == a - b * FloorDiv(a, b)

\* Characters of the strings of the model, with their code points.
Digits == <<"0", "1", "2", "3", "4", "5", "6", "7", "8", "9">>
IsDigit(c) == \E d \in 1..10 : Digits[d] = c
DigitValue(c) == (CHOOSE d \in 1..10 : Digits[d] = c) - 1
CodePoint(c) ==
    CASE c = " " -> 32 [] c = "+" -> 43 [] c = "-" -> 45
      [] IsDigit(c) -> 48 + DigitValue(c)
      [] c = "_" -> 95 [] OTHER -> 120

\* str(n): decimal digits, "-" in front of a negative number.
RECURSIVE Decimal(_)
Decimal(n) ==
    IF n < 10 THEN <<Digits[n + 1]>>
    ELSE Decimal(n \div 10) \o <<Digits[(n % 10) + 1]>>
Str(n) == IF n < 0 THEN <<"-">> \o Decimal(0 - n) ELSE Decimal(n)

\* int(s): surrounding blanks are dropped, one sign is allowed, then digits,
\* single underscores allowed between digits.  NoInt stands for ValueError.
RECURSIVE StripLeft(_)
StripLeft(s) == IF s # <<>> /\ s[1] = " " THEN StripLeft(Tail(s)) ELSE s
RECURSIVE StripRight(_)
StripRight(s) ==
    IF s # <<>> /\ s[Len(s)] = " " THEN StripRight(SubSeq(s, 1, Len(s) - 1))
    ELSE s
Unsigned(s) == IF s # <<>> /\ s[1] \in {"+", "-"} THEN Tail(s) ELSE s
WellFormedDigits(s) ==
    /\ s # <<>> /\ IsDigit(s[1]) /\ IsDigit(s[Len(s)])
    /\ \A i \in 1..Len(s) : IsDigit(s[i]) \/ s[i] = "_"
    /\ \A i \in 1..(Len(s) - 1) : ~(s[i] = "_" /\ s[i + 1] = "_")
RECURSIVE DigitsValue(_)
DigitsValue(s) ==
    IF s = <<>> THEN 0
    ELSE IF s[Len(s)] = "_" THEN DigitsValue(SubSeq(s, 1, Len(s) - 1))
    ELSE 10 * DigitsValue(SubSeq(s, 1, Len(s) - 1)) + DigitValue(s[Len(s)])
NoInt == [ok |-> FALSE, n |-> 0]
ParseInt(s) ==
    LET t == StripRight(StripLeft(s))
        u == Unsigned(t)
    IN  IF ~WellFormedDigits(u) THEN NoInt
        ELSE [ok |-> TRUE,
              n |-> IF t[1] = "-" THEN 0 - DigitsValue(u) ELSE DigitsValue(u)]

\* Python's < on str: by code point, a proper prefix comes first.
RECURSIVE StrLess(_, _)
StrLess(a, b) ==
    IF b = <<>> THEN FALSE
    ELSE IF a = <<>> THEN TRUE
    ELSE IF a[1] = b[1] THEN StrLess(Tail(a), Tail(b))
    ELSE CodePoint(a[1]) < CodePoint(b[1])

\* builtin_block
\* A block builtin that pushes vm.current_block whatever it is.
builtin_block_unchecked(stack, cb) == Done(Append(stack, BlockV(cb)))
builtin_block(stack, cb) ==
    IF cb = NoBlock THEN Failed(stack, NoCurrentBlock)
    ELSE Done(Append(stack, BlockV(cb)))

\* A truthiness that takes the integer 0 and the empty string for false.
is_true_like_c(condition) ==
    /\ condition.t \notin {"Nil", "Void", "False"}
    /\ condition # IntV(0) /\ condition # StringV(<<>>)
\* A truthiness that takes only True for true.
is_true_only_true(condition) == condition.t = "True"
\* `not isinstance(condition, (NilSingleton, VoidSingleton, FalseSingleton))`
is_true(condition) == condition.t \notin {"Nil", "Void", "False"}
\* A choose that leaves the condition on the AL.
builtin_choose_keeps_condition(stack) ==
    IF Len(stack) < 3 THEN Failed(stack, ALUnderflow)
    ELSE Done(Append(Under(stack, 2),
                     IF is_true(FromTop(stack, 2)) THEN FromTop(stack, 1)
                     ELSE FromTop(stack, 0)))
\* A choose that pops what there is before it counts.
builtin_choose_pops_first(stack) ==
    IF Len(stack) < 3 THEN Failed(<<>>, ALUnderflow)
    ELSE Done(Append(Under(stack, 3),
                     IF is_true(FromTop(stack, 2)) THEN FromTop(stack, 1)
                     ELSE FromTop(stack, 0)))
\* builtin_choose
builtin_choose(stack) ==
    IF Len(stack) < 3 THEN Failed(stack, ALUnderflow)
    ELSE LET false_value == FromTop(stack, 0)
             true_value == FromTop(stack, 1)
             condition == FromTop(stack, 2)
             selected == IF is_true(condition) THEN true_value
                         ELSE false_value
         IN  Done(Append(Under(stack, 3), selected))

\* builtin_debug_choose: the branch its chain of isinstance tests takes.
debug_is_true(condition) ==
    IF condition.t = "True" THEN TRUE
    ELSE IF condition.t \in {"False", "Void", "Nil"} THEN FALSE
    ELSE IF condition.t = "int" THEN condition.v # 0
    ELSE IF condition.t = "str" THEN condition.v # <<>>
    ELSE TRUE
\* builtin_debug_choose; what it prints is left out.
builtin_debug_choose(stack) ==
    IF Len(stack) < 3 THEN Failed(stack, ALUnderflow)
    ELSE LET false_block == FromTop(stack, 0)
             true_block == FromTop(stack, 1)
             condition == FromTop(stack, 2)
         IN  Done(Append(Under(stack, 3),
                         IF debug_is_true(condition) THEN true_block
                         ELSE false_block))

\* builtin_lt
builtin_lt(stack) ==
    IF Len(stack) < 2 THEN Failed(stack, ALUnderflow)
    ELSE LET b == FromTop(stack, 0)
             a == FromTop(stack, 1)
             rest == Under(stack, 2)
         IN  IF a.t # b.t THEN Failed(rest, TypeMismatch)
             ELSE IF IsInt(a) THEN Done(Append(rest, Bool(a.v < b.v)))
             ELSE IF IsStr(a) THEN Done(Append(rest, Bool(StrLess(a.v, b.v))))
             ELSE Failed(rest, TypeMismatch)

\* builtin_add, builtin_subtract, builtin_multiply, builtin_divide,
\* builtin_modulo: op is one of "+", "-", "*", "/", "%".
builtin_arithmetic(op, stack) ==
    IF Len(stack) < 2 THEN Failed(stack, ALUnderflow)
    ELSE LET b == FromTop(stack, 0)
             a == FromTop(stack, 1)
             rest == Under(stack, 2)
         IN  IF ~IsInt(a) \/ ~IsInt(b) THEN Failed(rest, TypeMismatch)
             ELSE IF op \in {"/", "%"} /\ b.v = 0
             THEN Failed(rest, DivisionByZero)
             ELSE Done(Append(rest, IntV(
                      CASE op = "+" -> a.v + b.v
                        [] op = "-" -> a.v - b.v
                        [] op = "*" -> a.v * b.v
                        [] op = "/" -> FloorDiv(a.v, b.v)
                        [] op = "%" -> FloorMod(a.v, b.v))))

\* builtin_print: the value is popped and written to stdout.
builtin_print(stack) ==
    IF Len(stack) < 1 THEN Failed(stack, ALUnderflow)
    ELSE Done(Under(stack, 1))

\* builtin_concat
builtin_concat(stack) ==
    IF Len(stack) < 2 THEN Failed(stack, ALUnderflow)
    ELSE LET b == FromTop(stack, 0)
             a == FromTop(stack, 1)
             rest == Under(stack, 2)
         IN  IF ~IsStr(a) \/ ~IsStr(b) THEN Failed(rest, TypeMismatch)
             ELSE Done(Append(rest, StringV(a.v \o b.v)))

\* builtin_to_string
builtin_to_string(stack) ==
    IF Len(stack) < 1 THEN Failed(stack, ALUnderflow)
    ELSE LET value == FromTop(stack, 0)
             rest == Under(stack, 1)
         IN  IF ~IsInt(value) THEN Failed(rest, TypeMismatch)
             ELSE Done(Append(rest, StringV(Str(value.v))))

\* A toInt that pushes nothing for a string it cannot parse.
builtin_to_int_silent(stack) ==
    IF Len(stack) < 1 THEN Failed(stack, ALUnderflow)
    ELSE LET value == FromTop(stack, 0)
             rest == Under(stack, 1)
         IN  IF ~IsStr(value) THEN Failed(rest, TypeMismatch)
             ELSE IF ParseInt(value.v).ok
             THEN Done(Append(rest, IntV(ParseInt(value.v).n)))
             ELSE Done(rest)
\* builtin_to_int
builtin_to_int(stack) ==
    IF Len(stack) < 1 THEN Failed(stack, ALUnderflow)
    ELSE LET value == FromTop(stack, 0)
             rest == Under(stack, 1)
         IN  IF ~IsStr(value) THEN Failed(rest, TypeMismatch)
             ELSE IF ParseInt(value.v).ok
             THEN Done(Append(rest, IntV(ParseInt(value.v).n)))
             ELSE Done(Append(rest, Nil))

\* builtin_is_void, builtin_is_nil
builtin_is_void(stack) ==
    IF Len(stack) < 1 THEN Failed(stack, ALUnderflow)
    ELSE Done(Append(Under(stack, 1), Bool(FromTop(stack, 0).t = "Void")))
builtin_is_nil(stack) ==
    IF Len(stack) < 1 THEN Failed(stack, ALUnderflow)
    ELSE Done(Append(Under(stack, 1), Bool(FromTop(stack, 0).t = "Nil")))

\* The FFI builtins with the number of values each needs on the AL.
FFINames == {"<", "+", "-", "*", "/", "%", "print", "concat", "toString",
             "toInt", "isVoid", "isNil"}
Arity(name) ==
    IF name \in {"<", "+", "-", "*", "/", "%", "concat"} THEN 2
    ELSE IF name = "choose" THEN 3
    ELSE IF name = "block" THEN 0 ELSE 1
\* BuiltinBlock.execute: `self.fn(vm)`, for the host functions that run no
\* Block.
RunBuiltin(name, stack, cb) ==
    CASE name = "block" -> builtin_block(stack, cb)
      [] name = "choose" -> builtin_choose(stack)
      [] name = "<" -> builtin_lt(stack)
      [] name \in {"+", "-", "*", "/", "%"} -> builtin_arithmetic(name, stack)
      [] name = "print" -> builtin_print(stack)
      [] name = "concat" -> builtin_concat(stack)
      [] name = "toString" -> builtin_to_string(stack)
      [] name = "toInt" -> builtin_to_int(stack)
      [] name = "isVoid" -> builtin_is_void(stack)
      [] name = "isNil" -> builtin_is_nil(stack)

(* --------------------------- Block.execute ----------------------------- *)

NoFrame == [kind |-> "none", block |-> NoBlock, pc |-> 0, saved_register |-> 0,
            saved_block |-> NoBlock, register |-> 0, next |-> Void,
            entry_al |-> <<>>,
            first |-> Void, ran |-> Void, runs |-> 0, entry_count |-> Void]
Top == IF frames = <<>> THEN NoFrame ELSE frames[Len(frames)]

\* A Block that starts on the root dict of its caller's Register.
NewRegisterShared == regs[register]
\* Register.__init__: `self.root = {}`
NewRegister == EmptyDict

\* `saved_register = vm.register; saved_block = vm.current_block;
\*  vm.register = Register(); vm.current_block = self`
Entered(b) ==
    [kind |-> "Block", block |-> b, pc |-> 1, saved_register |-> register,
     saved_block |-> current_block, register |-> alive + 1, next |-> Void,
     entry_al |-> al, first |-> Void, ran |-> Void, runs |-> 0,
     entry_count |-> Void]

\* A restore that forgets vm.current_block.
RestoredRegisterOnly(frame) ==
    [register |-> frame.saved_register, current_block |-> frame.block]
\* `finally: vm.register = saved_register; vm.current_block = saved_block`
Restored(frame) ==
    [register |-> frame.saved_register, current_block |-> frame.saved_block]

\* The run_nodes of the CompiledProgram or the body of the Block a frame
\* executes.
Body(frame) ==
    IF frame.kind = "program" THEN ProgramBody(frame.block)
    ELSE IF frame.block \in ProgramBlocks THEN ProgramBlockBody(frame.block)
    ELSE BlockBody(frame.block)
\* The statement the VM is about to run: the next one of the executing
\* Block's body or of the executing program, or any statement of the
\* top-level programs.
Pending ==
    IF frames = <<>> THEN program
    ELSE IF Top.kind \in {"Block", "program"} /\ Top.pc <= Len(Body(Top))
    THEN {Body(Top)[Top.pc]}
    ELSE {}
Advanced ==
    IF frames = <<>> THEN frames
    ELSE [frames EXCEPT ![Len(frames)].pc = @ + 1]

OnGraph(p) == IF IsRegisterPath(p) THEN "Register" ELSE "Store"
Running == error = Ok
Fits(h) == Len(h) <= NumBuiltinCells + MaxCells
IsExecutable(x) == x.t \in {"Block", "BuiltinBlock"}
\* The host's programs keep the AL short; a Block body pushes what it pushes.
Roomy == frames # <<>> \/ Len(al) < MaxAL
\* The integers and strings the FFI builtins compute stay small.
InRange(name, stack) ==
    (name \in FFINames /\ stack # <<>>) =>
        LET x == stack[Len(stack)]
        IN  /\ x.t = "int" => (x.v <= MaxInt /\ 0 - x.v <= MaxInt)
            /\ x.t = "str" => Len(x.v) <= MaxStrLen
BlockDepth == Cardinality({i \in 1..Len(frames) : frames[i].kind = "Block"})
Pop(stack) == SubSeq(stack, 1, Len(stack) - 1)
Peek(stack) == stack[Len(stack)]
Unlogged(r) == [heap |-> heap, root |-> store, result |-> r]

\* A statement has raised: the error starts to propagate.
Raise(e) == error' = e

\* IntNode (and StringNode): `vm.al.append(value)`
PushInt ==
    \E s \in Pending :
        /\ Running /\ s.k = "IntNode" /\ Roomy
        /\ al' = Append(al, IntV(s.n))
        /\ frames' = Advanced
        /\ last' = NoOp
        /\ UNCHANGED <<loaded_extensions, program, heap, store, regs, register, current_block, error, alive>>

\* StringNode: `vm.al.append(value)`
PushString ==
    \E s \in Pending :
        /\ Running /\ s.k = "StringNode" /\ Roomy
        /\ al' = Append(al, StringV(s.p))
        /\ frames' = Advanced
        /\ last' = NoOp
        /\ UNCHANGED <<loaded_extensions, program, heap, store, regs, register, current_block,
                       error, alive>>

\* A BlockNode that builds a new Block from its body each time it runs.
PushBlockFresh ==
    \E s \in Pending :
        /\ Running /\ s.k = "BlockNode" /\ Roomy
        /\ al' = Append(al, BlockV(s.n + 100 * (Len(al) + 1)))
        /\ frames' = Advanced
        /\ last' = NoOp
        /\ UNCHANGED <<loaded_extensions, program, heap, store, regs, register, current_block, error, alive>>

\* BlockNode: `vm.al.append(block)`
PushBlock ==
    \E s \in Pending :
        /\ Running /\ s.k = "BlockNode" /\ Roomy
        /\ al' = Append(al, BlockV(s.n))
        /\ frames' = Advanced
        /\ last' = NoOp
        /\ UNCHANGED <<loaded_extensions, program, heap, store, regs, register, current_block, error, alive>>

\* ValuePath: `vm.al.append(storage.read_value(components))`
PushValue ==
    \E s \in Pending :
        LET on == OnGraph(s.p)
            v == ReadValue(heap, RootOf(on), on, s.p)
        IN  /\ Running /\ s.k = "ValuePath"
            /\ IF IsError(v) THEN Raise(v) /\ al' = al
               ELSE Roomy /\ al' = Append(al, v) /\ error' = error
            /\ frames' = Advanced
            /\ last' = Logged("read_value", on, s.p, Void,
                              GetCell(heap, RootOf(on), on, s.p),
                              Raised(heap, RootOf(on), v))
            /\ UNCHANGED <<loaded_extensions, program, heap, store, regs, register, current_block, alive>>

\* ReferencePath: `vm.al.append(storage.read_ref(components))`
PushRef ==
    \E s \in Pending :
        LET on == OnGraph(s.p)
            r == ReadRef(heap, RootOf(on), on, s.p)
        IN  /\ Running /\ s.k = "ReferencePath" /\ Roomy
            /\ Fits(r.heap) /\ Becomes(on, r)
            /\ al' = Append(al, r.result)
            /\ frames' = Advanced
            /\ last' = Logged("read_ref", on, s.p, Void, r.result.v, r)
            /\ UNCHANGED <<loaded_extensions, program, register, current_block, error, alive>>

\* The record of a Store statement that found nothing to pop.
StoreUnderflowed == [NoOp EXCEPT !.op = "store"]

\* StoreNode: store_fn
StoreStatement ==
    \E s \in Pending :
        LET on == OnGraph(s.p)
            value == Peek(al)
            r == IF s.tk = "ReferencePath"
                 THEN WriteRef(heap, RootOf(on), on, s.p, value)
                 ELSE WriteValue(heap, RootOf(on), on, s.p, value)
            g == ReadRef(heap, RootOf(on), on, s.p)
        IN  /\ Running /\ s.k = "StoreNode"
            /\ frames' = Advanced
            /\ IF Len(al) = 0
               THEN /\ Raise(ALUnderflow)
                    /\ last' = StoreUnderflowed
                    /\ UNCHANGED <<heap, store, regs, al>>
               ELSE /\ Fits(r.heap) /\ Becomes(on, r)
                    /\ al' = Pop(al)
                    /\ error' = error
                    /\ last' = Logged(IF s.tk = "ReferencePath" THEN "write_ref"
                                      ELSE "write_value", on, s.p, value,
                                      IF s.tk = "ReferencePath" /\ IsVoid(value)
                                      THEN GetCell(heap, RootOf(on), on, s.p)
                                      ELSE g.result.v, r)
            /\ UNCHANGED <<loaded_extensions, program, register, current_block, alive>>

\* The value an ExecNode pops: the one its target has just pushed.
ExecTarget(s) ==
    IF s.tk = "BlockNode" THEN BlockV(s.n)
    ELSE ReadValue(heap, RootOf(OnGraph(s.p)), OnGraph(s.p), s.p)

\* The record of an Exec statement: the value it has popped.
Executing(thing) == [NoOp EXCEPT !.op = "exec", !.value = thing]

\* ExecNode on a Block: exec_fn up to the body of Block.execute.
ExecEnter ==
    \E s \in Pending :
        LET thing == ExecTarget(s)
        IN  /\ Running /\ s.k = "ExecNode" /\ thing.t = "Block"
            /\ BlockDepth < MaxDepth /\ alive < MaxRegs
            /\ (frames = <<>> => Len(al) + Growth(thing.v) <= MaxAL + 3)
            /\ frames' = Append(Advanced, Entered(thing.v))
            /\ regs' = [r \in DOMAIN regs \cup {alive + 1} |->
                           IF r = alive + 1 THEN NewRegister ELSE regs[r]]
            /\ register' = alive + 1
            /\ current_block' = thing.v
            /\ alive' = alive + 1
            /\ last' = Executing(thing)
            /\ UNCHANGED <<loaded_extensions, program, heap, store, al, error>>

\* An Exec statement that skips what it cannot execute.
ExecFailSilently ==
    \E s \in Pending :
        LET thing == ExecTarget(s)
        IN  /\ Running /\ s.k = "ExecNode" /\ ~IsExecutable(thing)
            /\ error' = IF IsError(thing) THEN thing ELSE Ok
            /\ frames' = Advanced
            /\ last' = IF IsError(thing) THEN NoOp ELSE Executing(thing)
            /\ UNCHANGED <<loaded_extensions, program, heap, store, regs, register,
                           current_block, al, alive>>
\* ExecNode on anything else: the target's read fails, or the value popped
\* is not executable.
ExecFail ==
    \E s \in Pending :
        LET thing == ExecTarget(s)
        IN  /\ Running /\ s.k = "ExecNode" /\ ~IsExecutable(thing)
            /\ Raise(IF IsError(thing) THEN thing
                     ELSE IF thing.t \in {"Void", "Nil"} THEN NothingToExecute
                     ELSE NotExecutable)
            /\ frames' = Advanced
            /\ last' = IF IsError(thing) THEN NoOp ELSE Executing(thing)
            /\ UNCHANGED <<loaded_extensions, program, heap, store, regs, register,
                           current_block, al, alive>>

\* The record of a call of the host function of a builtin on the AL `stack`:
\* its name and the operand that lies deepest, if the AL holds them all.
Invoked(name, stack) ==
    [NoOp EXCEPT !.op = name,
                 !.value = IF Arity(name) = 0 \/ Len(stack) < Arity(name)
                           THEN Void ELSE FromTop(stack, Arity(name) - 1)]

\* A BuiltinBlock that runs its host function in a Register of its own and
\* with no current Block, and leaves both in place.
ExecBuiltinFramed ==
    \E s \in Pending :
        LET thing == ExecTarget(s)
            name == BuiltinNames[thing.v]
            r == RunBuiltin(name, al, NoBlock)
        IN  /\ Running /\ s.k = "ExecNode" /\ thing.t = "BuiltinBlock"
            /\ name \in FFINames \cup {"block", "choose"}
            /\ InRange(name, r.al)
            /\ al' = r.al
            /\ error' = r.error
            /\ frames' = Advanced
            /\ last' = Invoked(name, al)
            /\ regs' = [x \in DOMAIN regs \cup {alive + 1} |->
                           IF x = alive + 1 THEN NewRegister ELSE regs[x]]
            /\ register' = alive + 1
            /\ current_block' = NoBlock
            /\ UNCHANGED <<loaded_extensions, program, heap, store, alive>>
\* ExecNode on a BuiltinBlock whose host function runs no Block: exec_fn
\* with BuiltinBlock.execute.
ExecBuiltin ==
    \E s \in Pending :
        LET thing == ExecTarget(s)
            name == BuiltinNames[thing.v]
            r == RunBuiltin(name, al, current_block)
        IN  /\ Running /\ s.k = "ExecNode" /\ thing.t = "BuiltinBlock"
            /\ name \in FFINames \cup {"block", "choose"}
            /\ InRange(name, r.al)
            /\ al' = r.al
            /\ error' = r.error
            /\ frames' = Advanced
            /\ last' = Invoked(name, al)
            /\ UNCHANGED <<loaded_extensions, program, heap, store, regs, register,
                           current_block, alive>>

\* The activation of builtin_chain that is about to execute `thing`.
ChainFrame(thing) ==
    [kind |-> "chain", block |-> current_block, pc |-> 0,
     saved_register |-> register, saved_block |-> current_block,
     register |-> register, next |-> thing,
     entry_al |-> al, first |-> thing, ran |-> Void, runs |-> 0,
     entry_count |-> StoreReadValue(heap, store, <<"counter">>)]
\* The frames with the innermost one no longer about to execute anything.
Taken ==
    [frames EXCEPT ![Len(frames)].next = Void,
                   ![Len(frames)].ran = Top.next,
                   ![Len(frames)].runs = IF @ > MaxLoop THEN @ ELSE @ + 1]
\* builtin_chain up to its loop, called with the frames fs in progress:
\* underflow, or the value popped is pushed back, or it is to be executed.
ChainCalled(fs) ==
    IF Len(al) < 1
    THEN /\ Raise(ALUnderflow) /\ al' = al /\ frames' = fs
    ELSE /\ error' = error
         /\ IF IsExecutable(Peek(al))
            THEN al' = Pop(al) /\ frames' = Append(fs, ChainFrame(Peek(al)))
            ELSE al' = al /\ frames' = fs

\* ExecNode on the chain builtin.
ExecChain ==
    \E s \in Pending :
        /\ Running /\ s.k = "ExecNode"
        /\ ExecTarget(s) = BuiltinBlock("chain")
        /\ ChainCalled(Advanced)
        /\ last' = Invoked("chain", al)
        /\ UNCHANGED <<loaded_extensions, program, heap, store, regs, register, current_block,
                       alive>>

\* chain: `thing.execute(vm)` on a Block.
ChainExecuteBlock ==
    /\ Running /\ Top.kind = "chain" /\ Top.next.t = "Block"
    /\ BlockDepth < MaxDepth /\ alive < MaxRegs
    /\ frames' = Append(Taken, Entered(Top.next.v))
    /\ regs' = [r \in DOMAIN regs \cup {alive + 1} |->
                   IF r = alive + 1 THEN NewRegister ELSE regs[r]]
    /\ register' = alive + 1
    /\ current_block' = Top.next.v
    /\ alive' = alive + 1
    /\ last' = NoOp
    /\ UNCHANGED <<loaded_extensions, program, heap, store, al, error>>

\* chain: `thing.execute(vm)` on a BuiltinBlock that runs no Block.
ChainExecuteBuiltin ==
    LET name == BuiltinNames[Top.next.v]
        r == RunBuiltin(name, al, current_block)
    IN  /\ Running /\ Top.kind = "chain" /\ Top.next.t = "BuiltinBlock"
        /\ name \in FFINames \cup {"block", "choose"}
        /\ InRange(name, r.al)
        /\ al' = r.al
        /\ error' = r.error
        /\ frames' = Taken
        /\ last' = Invoked(name, al)
        /\ UNCHANGED <<loaded_extensions, program, heap, store, regs, register, current_block,
                       alive>>

\* chain: `thing.execute(vm)` on the chain builtin itself.
ChainExecuteChain ==
    /\ Running /\ Top.kind = "chain" /\ Top.next = BuiltinBlock("chain")
    /\ ChainCalled(Taken)
    /\ last' = Invoked("chain", al)
    /\ UNCHANGED <<loaded_extensions, program, heap, store, regs, register, current_block, alive>>

\* The record of a return of builtin_chain: the value it was called on.
ChainReturned(frame) ==
    [NoOp EXCEPT !.op = "chain returned", !.value = frame.first]

\* A chain that gives up once it has executed MaxLoop values.
ChainAgainCapped ==
    /\ Running /\ Top.kind = "chain" /\ Top.next = Void
    /\ al # <<>> /\ IsExecutable(Peek(al))
    /\ IF Top.runs < MaxLoop
       THEN /\ al' = Pop(al)
            /\ frames' = [frames EXCEPT ![Len(frames)].next = Peek(al)]
            /\ last' = NoOp
       ELSE /\ al' = al
            /\ frames' = Pop(frames)
            /\ last' = ChainReturned(Top)
    /\ UNCHANGED <<loaded_extensions, program, heap, store, regs, register, current_block, error,
                   alive>>
\* chain: what it executed has returned and has left an executable on the
\* AL top, `thing = vm.al.pop()`.
ChainAgain ==
    /\ Running /\ Top.kind = "chain" /\ Top.next = Void
    /\ al # <<>> /\ IsExecutable(Peek(al))
    /\ al' = Pop(al)
    /\ frames' = [frames EXCEPT ![Len(frames)].next = Peek(al)]
    /\ last' = NoOp
    /\ UNCHANGED <<loaded_extensions, program, heap, store, regs, register, current_block, error,
                   alive>>

\* A chain that pushes back the last Block it has executed.
ChainReturnPushesBack ==
    /\ Running /\ Top.kind = "chain" /\ Top.next = Void
    /\ ~(al # <<>> /\ IsExecutable(Peek(al)))
    /\ frames' = Pop(frames)
    /\ last' = ChainReturned(Top)
    /\ al' = Append(al, Top.ran)
    /\ UNCHANGED <<loaded_extensions, program, heap, store, regs, register, current_block,
                   error, alive>>
\* chain: `break`, and nothing is pushed back since the last value popped
\* was executable.
ChainReturn ==
    /\ Running /\ Top.kind = "chain" /\ Top.next = Void
    /\ ~(al # <<>> /\ IsExecutable(Peek(al)))
    /\ frames' = Pop(frames)
    /\ last' = ChainReturned(Top)
    /\ UNCHANGED <<loaded_extensions, program, heap, store, regs, register, current_block, al,
                   error, alive>>

\* An error leaves builtin_chain.
ChainUnwind ==
    /\ ~Running /\ Top.kind = "chain"
    /\ frames' = Pop(frames)
    /\ last' = NoOp
    /\ UNCHANGED <<loaded_extensions, program, heap, store, regs, register, current_block, al,
                   error, alive>>

(* ------------------------- the debug builtins -------------------------- *)

\* builtin_debug_chain: `MAX_ITERATIONS = 1000`
MAX_ITERATIONS == 1000

\* ExecNode on the debug.choose builtin.
ExecDebugChoose ==
    \E s \in Pending :
        LET r == builtin_debug_choose(al)
        IN  /\ Running /\ s.k = "ExecNode"
            /\ ExecTarget(s) = BuiltinBlock("debug.choose")
            /\ al' = r.al
            /\ error' = r.error
            /\ frames' = Advanced
            /\ last' = [NoOp EXCEPT !.op = "debug.choose",
                                    !.value = IF Len(al) < 3 THEN Void
                                              ELSE FromTop(al, 2)]
            /\ UNCHANGED <<loaded_extensions, program, heap, store, regs,
                           register, current_block, alive>>

\* The activation of builtin_debug_chain that is about to start an
\* iteration on `thing`; runs is its variable `iteration`.
DebugChainFrame(thing) == [ChainFrame(thing) EXCEPT !.kind = "debug.chain"]
\* ExecNode on the debug.chain builtin, up to its loop: underflow, or the
\* value popped is executable, or it is Nil and is dropped, or it is pushed
\* back.
ExecDebugChain ==
    \E s \in Pending :
        /\ Running /\ s.k = "ExecNode"
        /\ ExecTarget(s) = BuiltinBlock("debug.chain")
        /\ IF Len(al) < 1
           THEN /\ Raise(ALUnderflow) /\ al' = al /\ frames' = Advanced
           ELSE /\ error' = error
                /\ IF IsExecutable(Peek(al))
                   THEN /\ al' = Pop(al)
                        /\ frames' = Append(Advanced,
                                            DebugChainFrame(Peek(al)))
                   ELSE /\ al' = IF Peek(al).t = "Nil" THEN Pop(al) ELSE al
                        /\ frames' = Advanced
        /\ last' = [NoOp EXCEPT !.op = "debug.chain",
                                !.value = IF al = <<>> THEN Void ELSE Peek(al)]
        /\ UNCHANGED <<loaded_extensions, program, heap, store, regs,
                       register, current_block, alive>>

\* The record of the end of builtin_debug_chain: the value it was called
\* on and the value it popped last.
DebugChainReturned(op, frame, thing) ==
    [NoOp EXCEPT !.op = op, !.value = frame.first, !.old = thing]
\* The frames with the innermost one in its next iteration.
DebugTaken ==
    [frames EXCEPT ![Len(frames)].next = Void,
                   ![Len(frames)].ran = Top.next,
                   ![Len(frames)].runs = @ + 1]

\* debug.chain on a Block: `iteration += 1`, then `break` at
\* MAX_ITERATIONS or `thing.execute(vm)`.
DebugChainExecuteBlock ==
    /\ Running /\ Top.kind = "debug.chain" /\ Top.next.t = "Block"
    /\ IF Top.runs + 1 >= MAX_ITERATIONS
       THEN /\ frames' = Pop(frames)
            /\ last' = DebugChainReturned("debug.chain stopped", Top,
                                          Top.next)
            /\ UNCHANGED <<regs, register, current_block, alive>>
       ELSE /\ BlockDepth < MaxDepth /\ alive < MaxRegs
            /\ frames' = Append(DebugTaken, Entered(Top.next.v))
            /\ regs' = [r \in DOMAIN regs \cup {alive + 1} |->
                           IF r = alive + 1 THEN NewRegister ELSE regs[r]]
            /\ register' = alive + 1
            /\ current_block' = Top.next.v
            /\ alive' = alive + 1
            /\ last' = NoOp
    /\ UNCHANGED <<loaded_extensions, program, heap, store, al, error>>

\* debug.chain on a BuiltinBlock that runs no Block.
DebugChainExecuteBuiltin ==
    LET name == BuiltinNames[Top.next.v]
        r == RunBuiltin(name, al, current_block)
    IN  /\ Running /\ Top.kind = "debug.chain"
        /\ Top.next.t = "BuiltinBlock"
        /\ name \in FFINames \cup {"block", "choose"}
        /\ IF Top.runs + 1 >= MAX_ITERATIONS
           THEN /\ frames' = Pop(frames)
                /\ last' = DebugChainReturned("debug.chain stopped", Top,
                                              Top.next)
                /\ UNCHANGED <<al, error>>
           ELSE /\ InRange(name, r.al)
                /\ al' = r.al
                /\ error' = r.error
                /\ frames' = DebugTaken
                /\ last' = Invoked(name, al)
        /\ UNCHANGED <<loaded_extensions, program, heap, store, regs,
                       register, current_block, alive>>

\* debug.chain: what it executed has returned and has left an executable
\* on the AL top, `thing = vm.al.pop()`.
DebugChainAgain ==
    /\ Running /\ Top.kind = "debug.chain" /\ Top.next = Void
    /\ al # <<>> /\ IsExecutable(Peek(al))
    /\ al' = Pop(al)
    /\ frames' = [frames EXCEPT ![Len(frames)].next = Peek(al)]
    /\ last' = NoOp
    /\ UNCHANGED <<loaded_extensions, program, heap, store, regs, register,
                   current_block, error, alive>>

\* debug.chain: `break`, and nothing is pushed back since the last value
\* popped was executable.
DebugChainReturn ==
    /\ Running /\ Top.kind = "debug.chain" /\ Top.next = Void
    /\ ~(al # <<>> /\ IsExecutable(Peek(al)))
    /\ frames' = Pop(frames)
    /\ last' = DebugChainReturned("debug.chain returned", Top, Top.ran)
    /\ UNCHANGED <<loaded_extensions, program, heap, store, regs, register,
                   current_block, al, error, alive>>

\* An error leaves builtin_debug_chain.
DebugChainUnwind ==
    /\ ~Running /\ Top.kind = "debug.chain"
    /\ frames' = Pop(frames)
    /\ last' = NoOp
    /\ UNCHANGED <<loaded_extensions, program, heap, store, regs, register,
                   current_block, al, error, alive>>

\* A return that wipes the Cells of the Register it drops.
LeaveClearing ==
    /\ register' = Restored(Top).register
    /\ current_block' = Restored(Top).current_block
    /\ frames' = Pop(frames)
    /\ regs' = [r \in DOMAIN regs \ {Top.register} |-> regs[r]]
    /\ alive' = alive - 1
    /\ last' = NoOp
    /\ heap' = [c \in DOMAIN heap |->
                   IF \E n \in DOMAIN regs[Top.register] :
                          regs[Top.register][n] = c
                   THEN VivifiedCell ELSE heap[c]]
    /\ UNCHANGED <<loaded_extensions, program, store, al, error>>
\* The frame of a Block.execute is left through its `finally`, the
\* Register it installed is dropped.
Leave ==
    /\ register' = Restored(Top).register
    /\ current_block' = Restored(Top).current_block
    /\ frames' = Pop(frames)
    /\ regs' = [r \in DOMAIN regs \ {Top.register} |-> regs[r]]
    /\ alive' = alive - 1
    /\ last' = NoOp
    /\ UNCHANGED <<loaded_extensions, program, heap, store, al, error>>

\* The body has run to its end.
BlockReturn ==
    /\ Running /\ Top.kind = "Block" /\ Pending = {}
    /\ Leave

\* An unwinding that takes back the counter the Blocks have written.
BlockUnwindRollingBack ==
    /\ ~Running /\ Top.kind = "Block"
    /\ register' = Restored(Top).register
    /\ current_block' = Restored(Top).current_block
    /\ frames' = Pop(frames)
    /\ regs' = [r \in DOMAIN regs \ {Top.register} |-> regs[r]]
    /\ alive' = alive - 1
    /\ last' = NoOp
    /\ store' = [n \in DOMAIN store \ {"counter"} |-> store[n]]
    /\ UNCHANGED <<loaded_extensions, program, heap, al, error>>
\* An unwinding that skips the `finally` of Block.execute.
BlockUnwindWithoutFinally ==
    /\ ~Running /\ Top.kind = "Block"
    /\ frames' = Pop(frames)
    /\ last' = NoOp
    /\ UNCHANGED <<loaded_extensions, program, heap, store, regs, register,
                   current_block, al, error, alive>>
\* An error leaves the body.
BlockUnwind ==
    /\ ~Running /\ Top.kind = "Block"
    /\ Leave

\* VM.execute has raised to the host, which may run another program.
ExecuteFailed ==
    /\ ~Running /\ frames = <<>>
    /\ error' = Ok
    /\ last' = NoOp
    /\ UNCHANGED <<loaded_extensions, program, heap, store, regs, register, current_block, al, frames, alive>>

Next ==
    \/ PushInt \/ PushBlock \/ PushValue \/ PushRef \/ StoreStatement
    \/ ExecEnter \/ ExecFail \/ BlockReturn \/ BlockUnwind \/ ExecuteFailed

InitCells == Constructed /\ program = TopStatements
Spec == InitCells /\ [][Next]_vars

\* The VM running the programs that use block, choose and chain.
NextControl ==
    \/ PushInt \/ PushString \/ PushBlock \/ PushValue \/ PushRef
    \/ StoreStatement \/ ExecEnter \/ ExecFail
    \/ ExecBuiltin \/ ExecChain
    \/ ChainExecuteBlock \/ ChainExecuteBuiltin \/ ChainExecuteChain
    \/ ChainAgain \/ ChainReturn \/ ChainUnwind
    \/ BlockReturn \/ BlockUnwind \/ ExecuteFailed
InitControl == Constructed /\ program = ControlStatements
SpecControl == InitControl /\ [][NextControl]_vars

\* The VM running the programs that compute with the FFI builtins.
NextBuiltins ==
    \/ PushInt \/ PushString \/ PushValue \/ StoreStatement
    \/ ExecEnter \/ ExecBuiltin \/ ExecChain
    \/ BlockReturn \/ BlockUnwind \/ ExecuteFailed
InitBuiltins == Constructed /\ program = BuiltinStatements
SpecBuiltins == InitBuiltins /\ [][NextBuiltins]_vars

(* ------------------------------ extensions ----------------------------- *)

\* str.startswith
StartsWith(s, prefix) ==
    Len(s) >= Len(prefix) /\ SubSeq(s, 1, Len(prefix)) = prefix
\* str.split with a separator of one character.
RECURSIVE Split(_, _)
Split(s, sep) ==
    IF \A i \in 1..Len(s) : s[i] # sep THEN <<s>>
    ELSE LET k == CHOOSE i \in 1..Len(s) :
                      s[i] = sep /\ \A j \in 1..(i - 1) : s[j] # sep
         IN  <<SubSeq(s, 1, k - 1)>> \o Split(SubSeq(s, k + 1, Len(s)), sep)
\* The path components of the model, by their characters.
Spelling ==
    ("use" :> <<"u", "s", "e">>) @@ ("a" :> <<"a">>) @@ ("b" :> <<"b">>)
      @@ ("" :> <<>>)
Component(chars) == CHOOSE n \in DOMAIN Spelling : Spelling[n] = chars
\* `path = name.split('.')`
ExtensionPath(name) ==
    [i \in 1..Len(Split(name, ".")) |-> Component(Split(name, ".")[i])]

\* The host functions of the extensions, each known by a number; function
\* k appends 41 + k to the AL, as the `lambda vm: vm.al.append(42)` of the
\* tests does.
ExtensionFns == {1, 2}
ExtensionBuiltin(fn) == Thing("BuiltinBlock", Len(BuiltinNames) + fn)
IsExtensionBuiltin(x) == x.t = "BuiltinBlock" /\ x.v > Len(BuiltinNames)
FnOf(x) == x.v - Len(BuiltinNames)
Answer(fn) == IntV(41 + fn)

\* Names the host and the register hooks register builtins under.
UseA == <<"u", "s", "e", ".", "a">>
UseAB == <<"u", "s", "e", ".", "a", ".", "b">>
UseDot == <<"u", "s", "e", ".">>
BareUse == <<"u", "s", "e">>
AUseB == <<"a", ".", "u", "s", "e", ".", "b">>
BareA == <<"a">>
\* The names and the function the host registers.
HostNames == {UseA, BareUse, AUseB}
HostFn == 2

\* A registration that takes any name.
register_extension_builtin_unchecked(h, root, name, fn) ==
    StoreWriteValue(h, root, ExtensionPath(name), ExtensionBuiltin(fn))
\* VM.register_extension_builtin
register_extension_builtin(h, root, name, fn) ==
    IF ~StartsWith(name, UseDot)
    THEN Raised(h, root, OutsideNamespace)
    ELSE StoreWriteValue(h, root, ExtensionPath(name), ExtensionBuiltin(fn))

\* The modules importlib finds under soma.extensions.
Modules == ExtensionNames \ {Unknown}
\* `hasattr(extension_module, 'register')`
HasRegister(x) == x # NoHook
\* The register_extension_builtin calls of the module's register(vm), in
\* order.
Registrations(x) ==
    CASE x = Full -> << <<UseA, 1>> >>
      [] x = HookOnly -> << <<UseAB, 2>> >>
      [] x = BadHook -> << <<UseA, 1>>, <<BareA, 2>> >>
      [] OTHER -> << >>
\* `hasattr(extension_module, 'get_soma_setup')` with a non-empty source,
\* and the program execute_code compiles from it.
HasSetup(x) == x \in {Full, BadSetup}
SetupOf(x) == IF x = Full THEN Setup ELSE SetupFails

\* The module's register(vm): its registrations one after the other, up to
\* the first that raises.
RECURSIVE register_hook(_, _, _)
register_hook(h, root, calls) ==
    IF calls = << >> THEN [heap |-> h, root |-> root, result |-> Ok]
    ELSE LET r == register_extension_builtin(h, root, Head(calls)[1],
                                             Head(calls)[2])
         IN  IF IsError(r.result) THEN r
             ELSE register_hook(r.heap, r.root, Tail(calls))

\* The activation of load_extension for a module that has a register hook:
\* pc 1 before register(vm), 2 before the setup source, 3 before
\* `self.loaded_extensions.add(extension_name)`.
LoadFrame(name) ==
    [NoFrame EXCEPT !.kind = "load", !.pc = 1, !.next = StringV(name)]
\* The activation of CompiledProgram.execute.
ProgramFrame(p) == [NoFrame EXCEPT !.kind = "program", !.block = p, !.pc = 1]

\* The record of a step of an extension: what it did, to which name or
\* value, and how it ended.
Extended(op, value, result) ==
    [NoOp EXCEPT !.op = op, !.value = value, !.result = result]

\* A load that does not look at loaded_extensions.
AlreadyLoadedNever(name) == FALSE
\* `if extension_name in self.loaded_extensions: return`
AlreadyLoaded(name) == name \in loaded_extensions
\* load_extension up to the call of the register hook: nothing for a name
\* already loaded, an error for a module that is missing or has no hook.
Resolved(name) ==
    IF AlreadyLoaded(name) THEN Ok
    ELSE IF name \notin Modules THEN ExtensionNotFound
    ELSE IF ~HasRegister(name) THEN MissingRegister
    ELSE Ok
load_extension(name, fs) ==
    /\ error' = Resolved(name)
    /\ frames' = IF AlreadyLoaded(name) \/ IsError(Resolved(name)) THEN fs
                 ELSE Append(fs, LoadFrame(name))

\* ExecNode on the use builtin: builtin_use and load_extension up to the
\* register hook.
ExecUse ==
    \E s \in Pending :
        /\ Running /\ s.k = "ExecNode"
        /\ ExecTarget(s) = BuiltinBlock("use")
        /\ IF Len(al) < 1
           THEN /\ Raise(ALUnderflow) /\ al' = al /\ frames' = Advanced
                /\ last' = Extended("use", Void, ALUnderflow)
           ELSE /\ al' = Pop(al)
                /\ IF ~IsStr(Peek(al))
                   THEN Raise(TypeMismatch) /\ frames' = Advanced
                   ELSE load_extension(Peek(al).v, Advanced)
                /\ last' = Extended(IF IsStr(Peek(al)) /\ AlreadyLoaded(Peek(al).v)
                                    THEN "use again" ELSE "use",
                                    Peek(al), error')
        /\ UNCHANGED <<loaded_extensions, program, heap, store, regs, register,
                       current_block, alive>>

\* load_extension: `extension_module.register(self)`
LoadRegister ==
    LET r == register_hook(heap, store, Registrations(Top.next.v))
    IN  /\ Running /\ Top.kind = "load" /\ Top.pc = 1
        /\ Fits(r.heap)
        /\ heap' = r.heap /\ store' = r.root
        /\ error' = r.result
        /\ frames' = IF IsError(r.result) THEN frames ELSE Advanced
        /\ last' = Extended("register", Top.next, r.result)
        /\ UNCHANGED <<loaded_extensions, program, regs, register,
                       current_block, al, alive>>

\* A load that records the name before the setup source has run.
LoadSetupAdding ==
    /\ Running /\ Top.kind = "load" /\ Top.pc = 2
    /\ frames' = IF HasSetup(Top.next.v)
                 THEN Append(Advanced, ProgramFrame(SetupOf(Top.next.v)))
                 ELSE Advanced
    /\ last' = Extended("setup", Top.next, Ok)
    /\ loaded_extensions' = loaded_extensions \cup {Top.next.v}
    /\ UNCHANGED <<program, heap, store, regs, register,
                   current_block, al, error, alive>>
\* load_extension: `self.execute_code(setup_code)` if the module supplies
\* setup source.
LoadSetup ==
    /\ Running /\ Top.kind = "load" /\ Top.pc = 2
    /\ frames' = IF HasSetup(Top.next.v)
                 THEN Append(Advanced, ProgramFrame(SetupOf(Top.next.v)))
                 ELSE Advanced
    /\ last' = Extended("setup", Top.next, Ok)
    /\ UNCHANGED <<loaded_extensions, program, heap, store, regs, register,
                   current_block, al, error, alive>>

\* load_extension: `self.loaded_extensions.add(extension_name)`
LoadAdd ==
    /\ Running /\ Top.kind = "load" /\ Top.pc = 3
    /\ loaded_extensions' = loaded_extensions \cup {Top.next.v}
    /\ frames' = Pop(frames)
    /\ last' = Extended("loaded", Top.next, Ok)
    /\ UNCHANGED <<program, heap, store, regs, register, current_block, al,
                   error, alive>>

\* An error of the register hook or of the setup source leaves
\* load_extension.
LoadUnwind ==
    /\ ~Running /\ Top.kind = "load"
    /\ frames' = Pop(frames)
    /\ last' = Extended("load failed", Top.next, error)
    /\ UNCHANGED <<loaded_extensions, program, heap, store, regs, register,
                   current_block, al, error, alive>>

\* ExecNode on the BuiltinBlock of an extension: BuiltinBlock.execute
\* calls the function it wraps.
ExecExtension ==
    \E s \in Pending :
        LET thing == ExecTarget(s)
        IN  /\ Running /\ s.k = "ExecNode" /\ IsExtensionBuiltin(thing)
            /\ al' = Append(al, Answer(FnOf(thing)))
            /\ frames' = Advanced
            /\ last' = Extended("fn", thing, Ok)
            /\ UNCHANGED <<loaded_extensions, program, heap, store, regs,
                           register, current_block, error, alive>>

\* The host calls vm.register_extension_builtin and catches what it raises.
HostRegister ==
    \E name \in HostNames :
        LET fn == HostFn
            r == register_extension_builtin(heap, store, name, fn)
        IN  /\ Running /\ frames = <<>>
            /\ Fits(r.heap)
            /\ heap' = r.heap /\ store' = r.root
            /\ last' = [op |-> "register_extension_builtin", name |-> name,
                        fn |-> fn, result |-> r.result,
                        old |-> IF StartsWith(name, UseDot)
                                THEN StoreReadValue(heap, store,
                                                    ExtensionPath(name))
                                ELSE UndefinedPath]
            /\ UNCHANGED <<loaded_extensions, program, regs, register,
                           current_block, al, frames, error, alive>>

\* The host hands a compiled program to VM.execute; MostPushed is the most
\* values a program of the host leaves on the AL.
MostPushed == 2
Execute ==
    \E p \in HostPrograms :
        /\ Running /\ frames = <<>> /\ Len(al) + MostPushed <= MaxAL
        /\ frames' = <<ProgramFrame(p)>>
        /\ last' = NoOp
        /\ UNCHANGED <<loaded_extensions, program, heap, store, regs,
                       register, current_block, al, error, alive>>

\* A program that goes on with its next statement after an error.
ProgramResumes ==
    /\ ~Running /\ Top.kind = "program"
    /\ error' = Ok
    /\ last' = NoOp
    /\ UNCHANGED <<loaded_extensions, program, heap, store, regs, register,
                   current_block, al, frames, alive>>
\* CompiledProgram.execute: an error leaves the loop over run_nodes.
ProgramUnwind ==
    /\ ~Running /\ Top.kind = "program"
    /\ frames' = Pop(frames)
    /\ last' = NoOp
    /\ UNCHANGED <<loaded_extensions, program, heap, store, regs, register,
                   current_block, al, error, alive>>

\* CompiledProgram.execute: the loop over run_nodes has come to its end.
ProgramReturn ==
    /\ Running /\ Top.kind = "program" /\ Pending = {}
    /\ frames' = Pop(frames)
    /\ last' = NoOp
    /\ UNCHANGED <<loaded_extensions, program, heap, store, regs, register,
                   current_block, al, error, alive>>

\* The VM running whole programs in order, the use builtin among their
\* statements, and the host registering extension builtins.
NextPrograms ==
    \/ Execute \/ HostRegister
    \/ PushInt \/ PushString \/ PushBlock \/ PushValue \/ PushRef
    \/ StoreStatement \/ ExecEnter \/ ExecFail \/ ExecUse \/ ExecExtension
    \/ LoadRegister \/ LoadSetup \/ LoadAdd \/ LoadUnwind
    \/ BlockReturn \/ BlockUnwind \/ ProgramReturn \/ ProgramUnwind
    \/ ExecuteFailed
SpecPrograms == Init /\ [][NextPrograms]_vars

(* --------------------- CellRefs and Blocks handed about ---------------- *)

\* The host hands one of the programs that hand CellRefs and Blocks about
\* to VM.execute.
ExecuteFrames ==
    \E p \in FramePrograms :
        /\ Running /\ frames = <<>> /\ Len(al) + MostPushed <= MaxAL
        /\ frames' = <<ProgramFrame(p)>>
        /\ last' = NoOp
        /\ UNCHANGED <<loaded_extensions, program, heap, store, regs,
                       register, current_block, al, error, alive>>

NextFrames ==
    \/ ExecuteFrames
    \/ PushInt \/ PushBlock \/ PushValue \/ PushRef \/ StoreStatement
    \/ ExecEnter \/ ExecFail \/ ExecBuiltin \/ ExecChain
    \/ ChainExecuteBlock \/ ChainAgain \/ ChainReturn \/ ChainUnwind
    \/ BlockReturn \/ BlockUnwind \/ ProgramReturn \/ ProgramUnwind
    \/ ExecuteFailed
SpecFrames == Init /\ [][NextFrames]_vars

(* ------------------------ the debug builtins run ----------------------- *)

\* The host hands one of the programs that run the debug builtins to
\* VM.execute.
ExecuteDebug ==
    \E p \in DebugPrograms :
        /\ Running /\ frames = <<>> /\ Len(al) + MostPushed <= MaxAL
        /\ frames' = <<ProgramFrame(p)>>
        /\ last' = NoOp
        /\ UNCHANGED <<loaded_extensions, program, heap, store, regs,
                       register, current_block, al, error, alive>>

NextDebug ==
    \/ ExecuteDebug
    \/ PushInt \/ PushString \/ PushBlock \/ PushValue \/ StoreStatement
    \/ ExecFail \/ ExecBuiltin \/ ExecDebugChoose \/ ExecDebugChain
    \/ DebugChainExecuteBlock \/ DebugChainExecuteBuiltin
    \/ DebugChainAgain \/ DebugChainReturn \/ DebugChainUnwind
    \/ BlockReturn \/ BlockUnwind \/ ProgramReturn \/ ProgramUnwind
    \/ ExecuteFailed
SpecDebug == Init /\ [][NextDebug]_vars

(* ======================== properties of the Cell graph ================== *)

\* The Cells whose value a resolution of the path inspects for a CellRef
\* before it reaches the last component.
RECURSIVE WalkHops(_, _, _)
WalkHops(h, current, comps) ==
    IF Len(comps) <= 1 \/ Head(comps) \notin DOMAIN current THEN {}
    ELSE {current[Head(comps)]}
           \cup WalkHops(h, h[Deref(h, current[Head(comps)])].children,
                         Tail(comps))
Hops(h, root, on, comps) ==
    IF on = "Store" THEN WalkHops(h, root, comps)
    ELSE IF "_" \notin DOMAIN root THEN {}
    ELSE {root["_"]}
           \cup WalkHops(h, h[Deref(h, root["_"])].children, Tail(comps))

Prefixes(P) == {SubSeq(P, 1, k) : k \in 1..Len(P)}
Suffixes == SeqsUpTo(PathNames, MaxLen - 1)

\* The graph the last operation acted on, as it is now.
LastRoot == RootOf(last.on)
ReadBack == ReadValue(heap, LastRoot, last.on, last.path)
Wrote(on) == last.op = "write_value" /\ last.on = on
\* The last write found a CellRef in the terminal Cell and wrote a plain value.
WroteThrough == IsCellRef(last.old) /\ ~IsCellRef(last.value)
\* The last write put a CellRef into a Cell that the path itself passes through.
WroteRefOnOwnPath ==
    IsCellRef(last.value) /\ last.cell \in Hops(heap, LastRoot, last.on, last.path)

ProbeNames == PathNames \cup {"_", "debug", "al"}
ProbePaths == SeqsUpTo(ProbeNames, MaxLen) \ {<<>>}
FreshStore ==
    store = PopulatedRoot /\ SubSeq(heap, 1, NumBuiltinCells) = PopulatedHeap

C4_Original ==
    (last.op = "write_value" /\ WroteThrough) =>
        /\ heap[last.old.v].value = last.value
        /\ ReadBack = last.old
        /\ \A P \in PathsOn(last.on) :
              GetCell(heap, LastRoot, last.on, P) = last.old.v =>
                  ReadValue(heap, LastRoot, last.on, P) = last.value
\* C4 as amended: P keeps reading r provided r's Cell is neither P's own
\* terminal Cell nor a Cell the resolution of P passes through.
C4_WriteThroughAlias ==
    (last.op = "write_value" /\ WroteThrough) =>
        /\ heap[last.old.v].value = last.value
        /\ (last.old.v # last.cell
              /\ last.old.v \notin Hops(heap, LastRoot, last.on, last.path))
             => ReadBack = last.old
        /\ \A P \in PathsOn(last.on) :
              GetCell(heap, LastRoot, last.on, P) = last.old.v =>
                  ReadValue(heap, LastRoot, last.on, P) = last.value
C4_Witness ==
    /\ Wrote("Store") /\ WroteThrough /\ last.value = IntV(7)
    /\ ReadBack = last.old
    /\ \E P \in StorePaths :
          /\ P # last.path
          /\ StoreGetCell(heap, store, P) = last.old.v
          /\ StoreReadValue(heap, store, P) = IntV(7)

\* C5: a Store write_value to a path whose first component did not exist
\* makes every proper prefix read Void and the path itself read V.
C5_AncestorVivification ==
    (Wrote("Store") /\ last.created = Len(last.path)) =>
        /\ ReadBack = last.value
        /\ \A Q \in Prefixes(last.path) \ {last.path} :
              StoreReadValue(heap, store, Q) = Void
C5_Witness ==
    /\ Wrote("Store") /\ last.created = Len(last.path) /\ Len(last.path) > 1
    /\ last.value = IntV(7) /\ ReadBack = IntV(7)
    /\ StoreReadValue(heap, store, <<last.path[1]>>) = Void

\* C6: after write_ref(P, Void), read_value(P) fails with Undefined-path and
\* so does read_value(P + S) for every suffix S, on Store and Register.
C6_StructuralDeletion ==
    (last.op = "write_ref" /\ IsVoid(last.value)) =>
        /\ ReadBack = UndefinedPath
        /\ \A S \in Suffixes :
              ReadValue(heap, LastRoot, last.on, last.path \o S) = UndefinedPath

\* The Register root Cell holds a CellRef.
RootAliased(h, root) == "_" \in DOMAIN root /\ IsCellRef(h[root["_"]].value)

\* What an operation does when applied at path S below the Cell C: its
\* heap and its result.
BelowCell(h, C, op, S, V) ==
    LET found == WalkGet(h, h[C].children, S)
        w == WalkCreate(h, EmptyDict, C, S)
    IN  CASE op = "read_value" ->
               [heap |-> h,
                result |-> IF found = NoCell THEN UndefinedPath
                           ELSE h[found].value]
          [] op = "read_ref" -> [heap |-> w.heap, result |-> CellRef(w.cell)]
          [] op = "write_value" ->
               [heap |-> WriteThrough(w.heap, w.cell, V), result |-> Ok]
          [] op = "write_ref" /\ IsVoid(V) ->
               [heap |-> WalkDelete(h, EmptyDict, C, S).heap, result |-> Ok]
          [] op = "write_ref" /\ ~IsVoid(V) ->
               [heap |-> ReplaceCell(w.heap, w.cell, V), result |-> Ok]

\* C9: while the Register root Cell holds a CellRef to a Cell C, each of the
\* four Register operations on ["_"] + S, S non-empty, has the result and the
\* effect of the same operation at S below C, and leaves the root dict alone.
C9_RootAliasAllOperations ==
    [][(/\ last'.op \in RegisterCalls /\ last'.on = "Register"
        /\ Len(last'.path) > 1
        /\ RootAliased(heap, regs[register]))
       => LET C == heap[regs[register]["_"]].value.v
              below == BelowCell(heap, C, last'.op, Tail(last'.path), last'.value)
          IN  /\ heap' = below.heap
              /\ last'.result = below.result
              /\ regs' = regs]_vars

(* ======================= properties of Block execution ================== *)

\* The Cells of a Register's own graph: those reached from its root dict
\* through children dicts alone.
RECURSIVE Below(_, _)
Below(h, c) ==
    {c} \cup UNION {Below(h, h[c].children[n]) : n \in DOMAIN h[c].children}
OwnCells(h, root) == UNION {Below(h, root[n]) : n \in DOMAIN root}
Graph(h, root) == [root |-> root, cells |-> [c \in OwnCells(h, root) |-> h[c]]]
HoldsNoCellRef(h, root) == \A c \in OwnCells(h, root) : ~IsCellRef(h[c].value)

\* The step is a Register operation of the executing Block.
RegisterStep ==
    /\ frames # <<>> /\ Len(frames') = Len(frames)
    /\ last'.op # "none" /\ last'.on = "Register"
OthersUntouched ==
    \A r \in DOMAIN regs \ {register} :
        Graph(heap', regs'[r]) = Graph(heap, regs[r])
\* A Block starts on an empty Register.
EntryEmpty ==
    (Running /\ frames # <<>> /\ Top.pc = 1) => regs[register] = EmptyDict
\* { 1 !_.n >{ 2 !_.n } _.n } ends with 1 on the AL top.
OuterReadsOwn ==
    (Running /\ frames # <<>> /\ Top.block = Outer
       /\ Top.pc = Len(BlockBody(Outer)) + 1) => Peek(al) = IntV(1)

\* C7 as claimed: every Block invocation starts with an empty Register, and
\* a Register operation it performs while its Register root holds no
\* CellRef changes no other Register's graph.
C7_Original ==
    /\ [](EntryEmpty /\ OuterReadsOwn)
    /\ [][(RegisterStep /\ ~RootAliased(heap, regs[register]))
             => OthersUntouched]_vars
\* C7 as amended: ... while no Cell of its Register, the root or any Cell
\* below it, holds a CellRef.
C7_RegisterIsolation ==
    /\ [](EntryEmpty /\ OuterReadsOwn)
    /\ [][(RegisterStep /\ HoldsNoCellRef(heap, regs[register]))
             => OthersUntouched]_vars
C7_Witness ==
    /\ Running /\ Len(frames) = 1 /\ Top.block = Outer
    /\ Top.pc = Len(BlockBody(Outer)) + 1
    /\ alive = 2 /\ Peek(al) = IntV(1)

\* The Register of the caller of the executing Block.
Caller == Top.saved_register
\* The executing Block's Register root holds the CellRef that `_.` yields
\* in its caller.
HandedOver ==
    /\ frames # <<>>
    /\ "_" \in DOMAIN regs[register] /\ "_" \in DOMAIN regs[Caller]
    /\ heap[regs[register]["_"]].value
         = CellRef(Deref(heap, regs[Caller]["_"]))
RegisterSuffixes == SeqsUpTo({"n", "a"}, MaxLen - 1)
SameView ==
    \A S \in RegisterSuffixes :
        RegisterReadValue(heap, regs[register], <<"_">> \o S)
          = RegisterReadValue(heap, regs[Caller], <<"_">> \o S)
CalleeWrote == RegisterStep /\ last'.op = "write_value"
CallerReadsNext ==
    RegisterReadValue(heap', regs'[Caller], last'.path)
\* Returning from a Block changes no Cell and no Register that remains.
ReturnKeeps ==
    Len(frames') < Len(frames) =>
        /\ heap' = heap
        /\ \A r \in DOMAIN regs' : regs'[r] = regs[r]

\* C8 as claimed: after a hand-over callee and caller read the same at
\* every ["_"] + S, and the caller reads back every V the callee writes.
C8_Original ==
    /\ [](HandedOver => SameView)
    /\ [][ReturnKeeps]_vars
    /\ [][(HandedOver /\ CalleeWrote) => CallerReadsNext = last'.value]_vars
\* C8 as amended: ... reads back V unless the terminal Cell held a CellRef
\* and V is not one, or V is a CellRef and the Cell written is one the
\* caller's resolution of the path passes through, its root Cell included.
C8_HandOver ==
    /\ [](HandedOver => SameView)
    /\ [][ReturnKeeps]_vars
    /\ [][(HandedOver /\ CalleeWrote) =>
            \/ IsCellRef(last'.old) /\ ~IsCellRef(last'.value)
            \/ /\ IsCellRef(last'.value)
               /\ last'.cell \in Hops(heap', regs'[Caller], "Register", last'.path)
            \/ CallerReadsNext = last'.value]_vars
C8_Witness ==
    /\ HandedOver /\ Top.block = Borrower
    /\ last.op = "write_value" /\ last.path = <<"_", "n">>
    /\ last.value = IntV(5) /\ last.created = 1
    /\ RegisterReadValue(heap, regs[Caller], <<"_", "n">>) = IntV(5)

\* C10: while a Block body runs vm.register is the Register created for it,
\* empty at the start, and vm.current_block is that Block; whenever a
\* Block.execute is left vm.register and vm.current_block are what they were
\* at the call, at every depth.
C10_SaveRestore ==
    /\ frames = <<>> => (register = TopRegister /\ current_block = NoBlock)
    /\ frames # <<>> => (register = Top.register /\ current_block = Top.block)
    /\ \A i \in 1..Len(frames) :
          /\ frames[i].saved_register
               = (IF i = 1 THEN TopRegister ELSE frames[i - 1].register)
          /\ frames[i].saved_block
               = (IF i = 1 THEN NoBlock ELSE frames[i - 1].block)
          /\ frames[i].register # TopRegister
          /\ \A j \in 1..(i - 1) : frames[j].register # frames[i].register
    /\ EntryEmpty
C10_Witness ==
    /\ Running /\ Len(frames) = 1 /\ Top.block = Outer /\ Top.pc = 4
    /\ alive = 2 /\ register = Top.register /\ current_block = Outer

(* ======================= properties of the builtins ===================== *)

\* The step has executed no Block and has left Store, Register and
\* current_block alone.
OnlyAL ==
    /\ UNCHANGED <<heap, store, regs, register, current_block, alive>>
    /\ Len(frames') = Len(frames)
    /\ BlockDepth' = BlockDepth

\* C11: choose only selects: with at least three values on the AL it pops
\* three and pushes one of the two candidates, executes neither, and leaves
\* the AL below the operands, the Store, the Register and current_block
\* unchanged.
C11_ChooseSelects ==
    [][(last'.op = "choose" /\ Len(al) >= 3) =>
          /\ error' = Ok
          /\ Len(al') = Len(al) - 2
          /\ Peek(al') \in {FromTop(al, 1), FromTop(al, 0)}
          /\ Under(al', 1) = Under(al, 3)
          /\ OnlyAL]_vars
\* choose has selected the Block that writes the counter, and the counter
\* is what the set-up made it.
C11_Witness ==
    /\ last.op = "choose" /\ error = Ok
    /\ al # <<>> /\ Peek(al) = BlockV(Effect)
    /\ StoreReadValue(heap, store, <<"counter">>) = IntV(0)

\* C12: with the AL ending in [condition, true_value, false_value], choose
\* pushes false_value exactly when the condition is Nil, Void or False and
\* true_value for every other condition (True, every integer, every string,
\* Blocks, BuiltinBlocks and CellRefs).
C12_ChooseTruthiness ==
    [][(last'.op = "choose" /\ Len(al) >= 3) =>
          LET condition == FromTop(al, 2)
              falsy == condition \in {Nil, Void, False_}
              truthy == \/ condition.t \in {"True", "int", "str", "Block",
                                            "BuiltinBlock"}
                        \/ IsCellRef(condition)
          IN  /\ falsy # truthy
              /\ falsy => Peek(al') = FromTop(al, 0)
              /\ truthy => Peek(al') = FromTop(al, 1)]_vars
\* choose has been given the integer 0 and has selected the true candidate,
\* which differs from the false one.
C12_Witness ==
    /\ last.op = "choose" /\ error = Ok /\ last.value = IntV(0)
    /\ al # <<>> /\ Peek(al) = BlockV(Effect)

\* The Block has run its body to the end and has not returned yet.
AtEnd(b) ==
    /\ Running /\ Top.kind = "Block" /\ Top.block = b
    /\ Top.pc = Len(BlockBody(b)) + 1

\* C13 as stated: Scenario E takes Void as the condition and leaves
\* 1, 2, 3, 200 on the AL.
C13_Original ==
    AtEnd(ScenarioE) =>
        /\ last.op = "choose" /\ last.value = Void
        /\ al = Top.entry_al \o <<IntV(1), IntV(2), IntV(3), IntV(200)>>
\* C13: Scenario E: in `1 2 3 Void 100 200 300 >choose` the three operands
\* of choose are 100, 200 and 300: the condition is 100, which is truthy,
\* so 200 is pushed and 1, 2, 3, Void, 200 are left on the AL it started
\* from, which is empty on a fresh VM.
C13_ScenarioE ==
    AtEnd(ScenarioE) =>
        /\ last.op = "choose" /\ last.value = IntV(100)
        /\ al = Top.entry_al
                  \o <<IntV(1), IntV(2), IntV(3), Void, IntV(200)>>
\* Scenario E has run from an empty AL.
C13_Witness ==
    /\ AtEnd(ScenarioE) /\ Top.entry_al = <<>>
    /\ al = <<IntV(1), IntV(2), IntV(3), Void, IntV(200)>>

\* builtin_chain is in its loop, about to execute a value it has popped.
ChainToExecute == Running /\ Top.kind = "chain" /\ Top.next # Void
\* builtin_chain is in its loop, what it executed last has returned.
ChainExecuted == Running /\ Top.kind = "chain" /\ Top.next = Void
Executable(stack) == stack # <<>> /\ IsExecutable(Peek(stack))

Iterations(N, c) == IF c < N THEN N - c ELSE 1
\* What a chain called on Loop(N) has done after each execution: the counter
\* has been incremented once per execution, and the Block has left itself
\* on the AL top until the counter has reached N.
LoopCounts ==
    \A N \in 1..MaxLoop :
        (/\ ChainExecuted /\ Top.first = BlockV(Loop(N))
         /\ IsInt(Top.entry_count)) =>
            LET c == Top.entry_count.v
            IN  /\ Top.runs <= Iterations(N, c)
                /\ StoreReadValue(heap, store, <<"counter">>)
                     = IntV(c + Top.runs)
                /\ Executable(al) <=> Top.runs < Iterations(N, c)
                /\ Executable(al) => Peek(al) = BlockV(Loop(N))
\* A chain that has executed `{ >block }` stays in its loop.
ForeverStays ==
    (Top.kind = "chain" /\ Top.ran = BlockV(Forever)) =>
        (Len(frames') >= Len(frames) /\ last'.op # "chain returned")

\* C15: the number of iterations of chain is decided by what each executed
\* Block leaves on the AL top: a Block that re-pushes itself until the
\* Store counter reaches N is executed exactly N times from a counter of 0
\* and chain then returns; once chain has executed `{ >block }` it never
\* returns.
C15_ChainIterations == [][LoopCounts' /\ ForeverStays]_vars
\* A chain called on Loop(2) with the counter at 0 has executed it twice and
\* finds Nil on the AL top.
C15_Witness ==
    /\ ChainExecuted /\ Top.first = BlockV(Loop(2))
    /\ Top.entry_count = IntV(0) /\ Top.runs = 2
    /\ al # <<>> /\ Peek(al) = Nil

\* The innermost Block whose body is running, NoBlock at the top level.
InnermostBlock ==
    LET running == {i \in 1..Len(frames) : frames[i].kind = "Block"}
    IN  IF running = {} THEN NoBlock
        ELSE frames[CHOOSE i \in running : \A j \in running : j <= i].block

\* C16: the block builtin fails and leaves the AL unchanged whenever no
\* Block is executing; otherwise it pushes exactly one value, the innermost
\* Block currently executing.
C16_BlockBuiltin ==
    [][last'.op = "block" =>
          IF InnermostBlock = NoBlock
          THEN error' = NoCurrentBlock /\ al' = al
          ELSE error' = Ok /\ al' = Append(al, BlockV(InnermostBlock))]_vars
\* The Block `{ >block }` has run `>block` and finds itself on the AL top.
C16_Witness ==
    /\ last.op = "block" /\ error = Ok
    /\ Top.kind = "Block" /\ Top.block = Forever
    /\ al # <<>> /\ Peek(al) = BlockV(Forever)

\* The step runs an Exec statement whose target has produced the value.
Execs(thing) ==
    /\ Running
    /\ \E s \in Pending : s.k = "ExecNode" /\ ExecTarget(s) = thing
    /\ \/ last'.op = "exec" /\ last'.value = thing
       \/ /\ thing.t = "BuiltinBlock" /\ last'.op = BuiltinNames[thing.v]
          /\ Top.kind # "chain"
\* The step executes nothing: no Block is entered, no host function runs,
\* and AL, Store, Register and current_block stay as they are.
NothingExecuted ==
    /\ frames' = Advanced
    /\ UNCHANGED <<al, heap, store, regs, register, current_block, alive>>
\* The values an Exec statement of the programs pops.
ExecValues ==
    {v \in {ExecTarget(s) : s \in {x \in Pending : x.k = "ExecNode"}} :
        ~IsError(v)}

\* C17: an Exec statement evaluates its target, pops the value produced and
\* executes it if and only if it is a Block or a BuiltinBlock; for every
\* other value (Void, Nil, True, False, integers, strings, CellRefs, also a
\* CellRef to a Cell that holds a Block) it fails with Not-executable and
\* executes nothing.
C17_Exec ==
    [][\A thing \in ExecValues :
          Execs(thing) =>
              /\ thing.t = "Block" =>
                    /\ error' = Ok /\ al' = al
                    /\ Top'.kind = "Block" /\ Top'.block = thing.v
                    /\ Top'.pc = 1 /\ Len(frames') = Len(frames) + 1
              /\ thing.t = "BuiltinBlock" =>
                    last'.op = BuiltinNames[thing.v]
              /\ ~IsExecutable(thing) =>
                    /\ error'.t = "Not-executable"
                    /\ NothingExecuted]_vars
\* An Exec statement has popped a CellRef to a Cell that holds a Block and
\* has failed.
C17_Witness ==
    /\ last.op = "exec" /\ IsCellRef(last.value)
    /\ heap[last.value.v].value = BlockV(Effect)
    /\ error = NotExecutable
    /\ StoreReadValue(heap, store, <<"counter">>) = IntV(0)

\* The Store statement that the executing Block is about to run, if any.
StorePending ==
    /\ Running /\ Top.kind = "Block"
    /\ \E s \in Pending : s.k = "StoreNode"
\* The step raises AL-underflow and leaves AL, Store and Register as they
\* were.
Underflows ==
    /\ error' = ALUnderflow
    /\ UNCHANGED <<al, heap, store, regs, register>>

\* C18: a Store statement (1 value), choose (3), chain (1) and every FFI
\* builtin (its arity) fail with AL-underflow whenever the AL holds fewer
\* values than they need, and then pop nothing: AL, Store and Register are
\* left as they were.
C18_Underflow ==
    [][/\ (StorePending /\ al = <<>>) => (last'.op = "store" /\ Underflows)
       /\ (last'.op = "choose" /\ Len(al) < 3) => Underflows
       /\ (last'.op = "chain" /\ Len(al) < 1) => Underflows
       /\ \A name \in FFINames :
             (last'.op = name /\ Len(al) < Arity(name)) => Underflows
       /\ (Running /\ error' = ALUnderflow) =>
             \/ last'.op = "store" /\ al = <<>>
             \/ \E name \in FFINames \cup {"choose", "chain"} :
                   last'.op = name /\ Len(al) < Arity(name)]_vars
\* choose has been called with two values on the AL and has failed.
C18_Witness ==
    /\ last.op = "choose" /\ error = ALUnderflow /\ Len(al) = 2

\* The step is a call of the FFI builtin that found its operands and
\* returned normally.
Computes(name) == last'.op = name /\ Len(al) >= Arity(name) /\ error' = Ok
\* The step pops the operands of the builtin and pushes `pushed` values,
\* the AL below the operands stays as it is.
Replaces(name, pushed) ==
    /\ Len(al') = Len(al) - Arity(name) + pushed
    /\ Under(al', pushed) = Under(al, Arity(name))

\* C19 as stated: each FFI builtin, print included, pops its operands and
\* pushes exactly one result.
C19_Original ==
    [][\A name \in FFINames : Computes(name) => Replaces(name, 1)]_vars
\* C19: each FFI builtin among + - * / % <, concat, toString, toInt, isVoid
\* and isNil, given enough operands of a valid type, pops a fixed number of
\* values and pushes exactly one result (Nil for toInt on an unparsable
\* string), the AL below the operands unchanged; print pops its operand and
\* pushes nothing.
C19_PopPush ==
    [][/\ \A name \in FFINames \ {"print"} :
             Computes(name) => Replaces(name, 1)
       /\ Computes("print") => Replaces("print", 0)
       /\ (Computes("toInt") /\ ~ParseInt(Peek(al).v).ok) =>
             Peek(al') = Nil]_vars
\* print has popped the only value of the AL and has pushed nothing.
C19_Witness ==
    /\ last.op = "print" /\ error = Ok /\ last.value = IntV(1)
    /\ al = <<>>

\* q is the quotient of a by b rounded towards minus infinity.
IsFloorQuotient(q, a, b) ==
    IF b > 0 THEN q * b <= a /\ a < (q + 1) * b
    ELSE q * b >= a /\ a > (q + 1) * b
\* r is what a leaves over the floor quotient by b.
IsMatchingRemainder(r, a, b) ==
    LET m == (IF a < 0 THEN 0 - a ELSE a) + 1
    IN  \E q \in (0 - m)..m : IsFloorQuotient(q, a, b) /\ r = a - q * b

\* C20: `/` and `%` applied to two integers with divisor 0 always fail with
\* Divide/modulo-by-zero and push nothing; with a non-zero divisor they push
\* the floor quotient and the matching remainder.
C20_Division ==
    [][\A name \in {"/", "%"} :
          (/\ last'.op = name /\ Len(al) >= 2
           /\ IsInt(FromTop(al, 1)) /\ IsInt(FromTop(al, 0))) =>
              LET a == FromTop(al, 1).v
                  b == FromTop(al, 0).v
              IN  IF b = 0
                  THEN error' = DivisionByZero /\ al' = Under(al, 2)
                  ELSE /\ error' = Ok
                       /\ Len(al') = Len(al) - 1
                       /\ Under(al', 1) = Under(al, 2)
                       /\ IsInt(Peek(al'))
                       /\ name = "/" => IsFloorQuotient(Peek(al').v, a, b)
                       /\ name = "%" =>
                             IsMatchingRemainder(Peek(al').v, a, b)]_vars
\* 1 has been divided by -2 and the quotient pushed is -1.
C20_Witness ==
    /\ last.op = "/" /\ error = Ok /\ last.value = IntV(1)
    /\ al # <<>> /\ Peek(al) = IntV(0 - 1)

(* ================= properties of the storage operations ================= *)

\* The graph the operation of this step acts on, after the step.
RootAfter(on) == IF on = "Register" THEN regs'[register'] ELSE store'
\* No Cell the resolution of the path touches, the terminal one included,
\* holds a CellRef (the literal Register root Cell counts).
NoCellRefOn(h, root, on, P) ==
    \A c \in Hops(h, root, on, P) \cup ({GetCell(h, root, on, P)} \ {NoCell}) :
        ~IsCellRef(h[c].value)
Front(P) == SubSeq(P, 1, Len(P) - 1)
\* This step is a successful call of `op`.
Calls(op) == last.op = "none" /\ last'.op = op /\ last'.result = Ok

\* write_value(P, V) with a plain V leaves what read_value(P + S) gives.
DescendantsKept ==
    (Calls("write_value") /\ ~IsCellRef(last'.value)) =>
        \A S \in Suffixes \ {<<>>} :
            LET Q == last'.path \o S
            IN  NoCellRefOn(heap, RootOf(last'.on), last'.on, Q) =>
                    ReadValue(heap', RootAfter(last'.on), last'.on, Q)
                        = ReadValue(heap, RootOf(last'.on), last'.on, Q)
\* write_value(P + [x], W) leaves what read_value(P) gives when P has a Cell.
ParentKept ==
    (Calls("write_value") /\ Len(last'.path) > 1) =>
        LET P == Front(last'.path)
        IN  (/\ GetCell(heap, RootOf(last'.on), last'.on, P) # NoCell
             /\ NoCellRefOn(heap, RootOf(last'.on), last'.on, last'.path)) =>
                ReadValue(heap', RootAfter(last'.on), last'.on, P)
                    = ReadValue(heap, RootOf(last'.on), last'.on, P)

\* C26: value and children of a Cell are orthogonal: on paths whose Cells
\* hold no CellRef, write_value(P, V) leaves the result of read_value(P + S)
\* as it was for every descendant, and write_value(P + [x], W) leaves
\* read_value(P) as it was, whatever value the Cell of P holds.
C26_ValueAndChildren == [][DescendantsKept /\ ParentKept]_vars
C26_Witness ==
    /\ Wrote("Store") /\ Len(last.path) = 1 /\ last.old = Void
    /\ last.value = IntV(7) /\ ReadBack = IntV(7)
    /\ \E x \in PathNames : StoreReadValue(heap, store, last.path \o <<x>>) = IntV(7)

\* The last operation was a write_ref of a value other than Void.
Replaced == last.op = "write_ref" /\ ~IsVoid(last.value) /\ last.result = Ok
\* The Cell the last operation resolved is one its own path passes through
\* on the way: a Cell met before the last component, or the Cell such a
\* Cell refers to.
OnOwnPath ==
    LET met == Hops(heap, LastRoot, last.on, last.path)
    IN  last.cell \in met \cup {Deref(heap, c) : c \in met}
BelowIsUndefined ==
    \A S \in Suffixes \ {<<>>} :
        ReadValue(heap, LastRoot, last.on, last.path \o S) = UndefinedPath

\* C27 as claimed: after write_ref(P, V), V not Void, the terminal Cell holds
\* V itself and has no children; for a V that is no CellRef read_value(P)
\* returns V and read_value(P + S) fails with Undefined-path for every
\* non-empty S.
C27_Original ==
    Replaced =>
        /\ heap[last.cell].value = last.value
        /\ heap[last.cell].children = EmptyDict
        /\ ~IsCellRef(last.value) => (ReadBack = last.value /\ BelowIsUndefined)
\* C27 as amended: ... read_value(P) returns V provided the terminal Cell is
\* not one of the Cells the resolution of P passes through, nor one that
\* such a Cell refers to.
C27_StructuralReplacement ==
    Replaced =>
        /\ heap[last.cell].value = last.value
        /\ heap[last.cell].children = EmptyDict
        /\ ~IsCellRef(last.value) =>
              /\ ~OnOwnPath => ReadBack = last.value
              /\ BelowIsUndefined
C27_Witness ==
    /\ Replaced /\ IsCellRef(last.old) /\ last.value = IntV(7)
    /\ last.cell # last.old.v
    /\ ReadBack = IntV(7) /\ heap[last.old.v].value # IntV(7)

\* Every prefix of the path that read undefined before this step still does.
MissingStaysMissing ==
    \A Q \in Prefixes(last'.path) :
        ReadValue(heap, RootOf(last'.on), last'.on, Q) = UndefinedPath =>
            ReadValue(heap', RootAfter(last'.on), last'.on, Q) = UndefinedPath

\* C28: read_value never auto-vivifies: whether it returns a value or fails,
\* a read_value on the Store or on a Register creates no Cell and changes no
\* value, and the path and its missing prefixes stay undefined.
C28_ReadValueFrame ==
    [][(last.op = "none" /\ last'.op = "read_value") =>
          /\ heap' = heap /\ store' = store /\ regs' = regs
          /\ MissingStaysMissing]_vars
C28_Witness ==
    /\ last.op = "read_value" /\ last.result = UndefinedPath
    /\ Len(last.path) = MaxLen /\ last.created = 0
    /\ Len(heap) > NumBuiltinCells
    /\ \A Q \in Prefixes(last.path) :
          ReadValue(heap, LastRoot, last.on, Q) = UndefinedPath

\* The last operation was a read_ref that returned.
Referred == last.op = "read_ref" /\ IsCellRef(last.result)
\* The Cells the last operation created.
NewCells == (Len(heap) - last.created + 1)..Len(heap)
\* This step is a read_ref of a well-formed path.
Refers ==
    /\ last.op = "none" /\ last'.op = "read_ref" /\ last'.path # <<>>
    /\ last'.on = "Register" => ValidRegisterPath(last'.path)

\* read_ref returns a CellRef and the prefixes that were missing read Void.
RefersAndVivifies ==
    Refers =>
        /\ IsCellRef(last'.result)
        /\ \A Q \in Prefixes(last'.path) :
              ReadValue(heap, RootOf(last'.on), last'.on, Q) = UndefinedPath =>
                  ReadValue(heap', RootAfter(last'.on), last'.on, Q) = Void
\* The CellRef designates the Cell the other operations resolve the path to.
DesignatesTerminal ==
    Referred =>
        /\ \A c \in NewCells :
              heap[c].value = Void /\ \A n \in DOMAIN heap[c].children :
                                          heap[c].children[n] \in NewCells
        /\ \A Q \in Prefixes(last.path) :
              ~IsError(ReadValue(heap, LastRoot, last.on, Q))
        /\ GetCell(heap, LastRoot, last.on, last.path) = last.result.v
        /\ ReadBack = heap[last.result.v].value
        /\ \A V \in {Void, IntV(7), last.result} :
              WriteValue(heap, LastRoot, last.on, last.path, V).heap
                  = WriteThrough(heap, last.result.v, V)
        /\ ReadRef(heap, LastRoot, last.on, last.path)
              = [heap |-> heap, root |-> LastRoot, result |-> last.result]

\* C29: read_ref(P) never fails on a missing path: it creates every missing
\* Cell along P with Void, afterwards read_value succeeds on every non-empty
\* prefix of P (Void for the new ones), the CellRef returned designates the
\* Cell read_value(P) and write_value(P, .) act on, and a second read_ref(P)
\* designates the same Cell.
C29_ReadRef == [][RefersAndVivifies /\ DesignatesTerminal']_vars
C29_Witness ==
    /\ Referred /\ last.created = MaxHostCells /\ last.on = "Store"
    /\ ReadBack = Void /\ StoreGetCell(heap, store, last.path) = last.result.v
    /\ StoreReadValue(heap, store, <<last.path[1]>>) = Void

\* C30: each of the four Register operations fails with
\* Invalid-register-path when the path is empty or its first component is
\* not "_", and the failing call leaves the Register as it was: no Cell is
\* created or deleted.
C30_InvalidRegisterPath ==
    [][(/\ last.op = "none" /\ last'.op = "rejected"
        /\ (last'.path = <<>> \/ last'.path[1] # "_")) =>
          /\ last'.result = InvalidRegisterPath
          /\ heap' = heap /\ regs' = regs /\ store' = store]_vars
C30_Witness ==
    /\ last.op = "rejected" /\ last.call = "write_ref" /\ last.value = Void
    /\ last.path = <<"a", "_">> /\ last.result = InvalidRegisterPath
    /\ "_" \in DOMAIN regs[register]
    /\ DOMAIN heap[regs[register]["_"]].children # {}

(* ===================== properties of the extensions ===================== *)

\* This step is the host's register_extension_builtin(name, HostFn).
Registers(name) ==
    last'.op = "register_extension_builtin" /\ last'.name = name
\* The registration is refused and the Store is as it was.
Refused ==
    last'.result = OutsideNamespace /\ heap' = heap /\ store' = store
\* The path reads the BuiltinBlock of the host's function and an Exec of
\* the path pops that BuiltinBlock.
ReadsBuiltin(path) ==
    /\ StoreReadValue(heap, store, path) = ExtensionBuiltin(HostFn)
    /\ ExecTarget(ExecPath(path)) = ExtensionBuiltin(HostFn)
\* An Exec of a BuiltinBlock of an extension runs the function it wraps.
RunsFn ==
    last'.op = "fn" =>
        /\ al' = Append(al, Answer(FnOf(last'.value)))
        /\ heap' = heap /\ store' = store /\ error' = Ok

Uses == last'.op \in {"use", "use again"} /\ al # <<>> /\ IsStr(Peek(al))
\* The program `(x) >use (x) >use` has come to its second `>use`.
SecondUse == frames # <<>> /\ Top.kind = "program" /\ Top.block[1] = "Twice"
                /\ Top.pc = 4

\* C22: load_extension is idempotent: called (by `>use`) for a name already
\* in loaded_extensions it invokes no register hook and runs no setup
\* source, and leaves Store, Register, loaded_extensions and, but for the
\* name `>use` pops, the AL as they were; the second `>use` of
\* `(x) >use (x) >use` always finds x loaded.
C22_LoadIdempotent ==
    [][/\ (Uses /\ Peek(al).v \in loaded_extensions) =>
              /\ al' = Pop(al) /\ error' = Ok
              /\ Len(frames') = Len(frames)
              /\ \A i \in 1..Len(frames) : frames'[i].kind # "load"
              /\ UNCHANGED <<heap, store, regs, register, current_block,
                             loaded_extensions>>
       /\ (SecondUse /\ Uses) => Top.block[2] \in loaded_extensions]_vars
C22_Witness ==
    /\ last.op = "use again" /\ last.value = StringV(Full) /\ al = <<>>
    /\ Full \in loaded_extensions
    /\ StoreReadValue(heap, store, <<"use", "a">>) = ExtensionBuiltin(HostFn)
    /\ Top.kind = "program" /\ Top.pc = 3

\* The names whose load fails: no module, no register hook, a hook that
\* raises, setup source that raises.
NeverLoaded == {Unknown, NoHook, BadHook, BadSetup}
\* The value the path reads, or the value of the Cell it refers to.
Behind(path) ==
    LET v == StoreReadValue(heap, store, path)
    IN  IF IsCellRef(v) THEN heap[v.v].value ELSE v
\* The setup source of the innermost load_extension is being executed.
InSetup ==
    /\ Len(frames) >= 2 /\ Top.kind = "program"
    /\ frames[Len(frames) - 1].kind = "load"

\* C23: for a name not yet loaded, load_extension calls the register hook
\* first, then executes the setup source, if any, as an ordinary program,
\* and only then adds the name to loaded_extensions; if the module is
\* unknown, has no register hook, or the hook or the setup source fails,
\* the call fails and the name is not in loaded_extensions afterwards.
C23_LoadOrder ==
    [][/\ last'.op = "register" =>
              Top.kind = "load" /\ Top.pc = 1 /\ Top.next.v \notin loaded_extensions
       /\ (InSetup' /\ ~InSetup) =>
              /\ Top.kind = "load" /\ Top.pc = 2
              /\ Top.next.v = Full => Behind(<<"use", "a">>) = ExtensionBuiltin(1)
       /\ loaded_extensions' # loaded_extensions =>
              /\ Running /\ Top.kind = "load" /\ Top.pc = 3
              /\ loaded_extensions' = loaded_extensions \cup {Top.next.v}
              /\ Top.next.v = Full =>
                    StoreReadValue(heap, store, <<"use", "b">>) = BlockV(Effect)
              /\ frames' = Pop(frames) /\ error' = Ok
       /\ last'.op = "load failed" =>
              /\ error' # Ok /\ last'.value.v \notin loaded_extensions'
       /\ (last'.op = "use" /\ IsStr(last'.value)
             /\ last'.value.v \in {Unknown, NoHook}) =>
              /\ error' = IF last'.value.v = Unknown THEN ExtensionNotFound
                          ELSE MissingRegister
              /\ Len(frames') = Len(frames)
       /\ (loaded_extensions \cap NeverLoaded = {})']_vars
C23_Witness ==
    /\ last.op = "load failed" /\ last.value = StringV(BadSetup)
    /\ error = NothingToExecute
    /\ StoreReadValue(heap, store, <<"use", "b">>) = IntV(5)
    /\ BadSetup \notin loaded_extensions /\ Full \in loaded_extensions

(* ================== properties of the order of execution ================ *)

\* The activations below the innermost one are as they were.
CallersWait ==
    \A i \in 1..(Len(frames) - 1) : i <= Len(frames') => frames'[i] = frames[i]
\* A program or a Block body goes through its statements one by one from
\* the first, and is left when the last has run.
InOrder ==
    (Running /\ frames # <<>> /\ Top.kind \in {"program", "Block"}) =>
        IF Len(frames') < Len(frames)
        THEN Top.pc = Len(Body(Top)) + 1 /\ frames' = Pop(frames)
        ELSE /\ Top.pc <= Len(Body(Top))
             /\ frames'[Len(frames)].pc = Top.pc + 1
             /\ Len(frames') > Len(frames) =>
                   /\ Len(frames') = Len(frames) + 1
                   /\ frames'[Len(frames')].pc = 1
\* An error runs no statement: it leaves one activation after the other
\* and reaches the host as it is.
ErrorEnds ==
    ~Running =>
        /\ UNCHANGED <<al, heap, store, loaded_extensions>>
        /\ IF frames = <<>> THEN error' = Ok
           ELSE frames' = Pop(frames) /\ error' = error
\* `0 !counter >{ 1 !counter >{ 2 !counter >Nil } 3 !counter } 4 !counter`
\* is left in its third statement with the counter at 2.
AbortStops ==
    (~Running /\ frames # <<>> /\ Top.kind = "program" /\ Top.block = Abort) =>
        /\ Top.pc = 4 /\ Len(frames) = 1
        /\ StoreReadValue(heap, store, <<"counter">>) = IntV(2)
        /\ error = NothingToExecute

\* C24: VM.execute runs the statements of a program in compiled order, each
\* with the Blocks it invokes to completion before the next, and a Block
\* body top to bottom once per invocation; the first failing statement ends
\* the execute call with its error, no later statement runs and nothing is
\* retried.
C24_Order == [][CallersWait /\ InOrder /\ ErrorEnds /\ AbortStops]_vars
C24_Witness ==
    /\ frames = <<>> /\ error = NothingToExecute
    /\ StoreReadValue(heap, store, <<"counter">>) = IntV(2) /\ al = <<>>

\* The steps that perform a storage operation or a registration.
StorageOps ==
    {"write_value", "write_ref", "read_ref", "register",
     "register_extension_builtin"}
\* The Store changes in storage operations only: entering, leaving and
\* unwinding an activation, at any depth, leave every Cell as it is.
OneStore ==
    (heap' # heap \/ store' # store) =>
        /\ Running /\ last'.op \in StorageOps
        /\ Len(frames') = Len(frames)
\* A Store write is read back by the next read at every depth.
SeenAtOnce ==
    (last'.op = "write_value" /\ last'.on = "Store" /\ ~IsCellRef(last'.old)
       /\ ~IsCellRef(last'.value)) =>
        \A s \in {ValuePath(<<"counter">>), ValuePath(<<"use", "b">>)} :
            s.p = last'.path =>
                (ReadValue(heap, RootOf(OnGraph(s.p)), OnGraph(s.p), s.p))'
                    = last'.value
\* `>{ 1 !counter >{ 2 !counter } counter } counter` reads 2 in the outer
\* Block and at the top level.
VisibleReads ==
    (Running /\ frames # <<>> /\ Top.kind = "program" /\ Top.block = Visible
       /\ Top.pc = 3) =>
        Len(al) >= 2 /\ SubSeq(al, Len(al) - 1, Len(al)) = <<IntV(2), IntV(2)>>
\* The counter written at depth 2 stays while the failure of `>Nil` leaves
\* the two Blocks.
KeptOnFailure ==
    (~Running /\ frames # <<>> /\ Top.kind = "Block"
       /\ Top.block \in {Writer, Failing}) =>
        (StoreReadValue(heap, store, <<"counter">>) = IntV(2))'

\* C25: there is one Store for all nesting levels and no isolation: a Store
\* write inside a Block at any depth is seen by every later read at every
\* depth, also by the invoking context after the Block has returned, and is
\* not rolled back when the Block or a later statement fails.
C25_OneStore ==
    [][OneStore /\ SeenAtOnce /\ VisibleReads /\ KeptOnFailure]_vars
C25_Witness ==
    /\ frames = <<>> /\ Running /\ al = <<IntV(2), IntV(2)>>
    /\ StoreReadValue(heap, store, <<"counter">>) = IntV(2)

(* ================ properties of reads of unwritten paths ================ *)

\* The Cells some dict of the graphs holds: a root dict or the children of
\* a Cell.
Held ==
    {store[n] : n \in DOMAIN store}
      \cup UNION {{regs[r][n] : n \in DOMAIN regs[r]} : r \in DOMAIN regs}
      \cup UNION {{heap[c].children[n] : n \in DOMAIN heap[c].children} :
                     c \in DOMAIN heap}
\* The last operation was a read_value that resolved no Cell.
ReadUnset == last.op = "read_value" /\ last.cell = NoCell

RefAfter == ReadRef(heap, LastRoot, last.on, last.path).result

\* C40 as stated: after a write_ref(P, V) with V other than Void, the
\* CellRef that read_ref(P) gave before the write designates the Cell that
\* read_ref(P) gives now, and that Cell holds V and has no children.
C40_Original ==
    Replaced =>
        /\ RefAfter = CellRef(last.cell)
        /\ heap[last.cell].value = last.value
        /\ heap[last.cell].children = EmptyDict

\* The Cells the resolution of the last operation's path goes through
\* before its last component: those it meets and those they refer to.  The
\* path ["_"] of a Register has none, its root Cell is the terminal one.
MetBefore ==
    IF last.on = "Register" /\ Len(last.path) = 1 THEN {}
    ELSE LET met == Hops(heap, LastRoot, last.on, last.path)
         IN  met \cup {Deref(heap, c) : c \in met}
\* The last operation put a CellRef into the root Cell of a Register, which
\* every later resolution of ["_"] follows.
AliasedRoot ==
    last.on = "Register" /\ Len(last.path) = 1 /\ IsCellRef(last.value)

\* C40 as amended: the terminal Cell is changed in place, so a CellRef taken
\* before the write sees the value V and no children; read_ref(P) gives the
\* same Cell afterwards unless the terminal Cell lies on the path P itself
\* or V is a CellRef written to the root of a Register.
C40_InPlace ==
    Replaced =>
        /\ heap[last.cell].value = last.value
        /\ heap[last.cell].children = EmptyDict
        /\ last.created = 0 => last.old # UndefinedPath
        /\ (last.cell \notin MetBefore /\ ~AliasedRoot) =>
               RefAfter = CellRef(last.cell)
\* A Cell with children that existed before is replaced and keeps its identity.
C40_Witness ==
    /\ Replaced /\ last.created = 0 /\ Len(last.path) > 1
    /\ last.old # last.value /\ last.cell \notin MetBefore
    /\ RefAfter = CellRef(last.cell)
    /\ heap[last.cell].value = last.value

(* ------------------ the host linking Cells of the Store ---------------- *)

\* The host builds linked structures in vm.store alone, as the linked list
\* of the unit tests: paths of one or two components, and at most
\* MaxLinkCells Cells.
MaxLinkCells == 3
LinkCallPaths == {P \in StorePaths : Len(P) <= 2}
LinkValues == {IntV(7)} \cup {CellRef(c) : c \in UserCells}
LinkCalled(r) ==
    /\ last.op = "none"
    /\ Len(r.heap) <= NumBuiltinCells + MaxLinkCells
    /\ heap' = r.heap /\ store' = r.root
    /\ UNCHANGED <<loaded_extensions, program, regs, register, current_block,
                   al, frames, error, alive>>

LinkReadValue ==
    \E P \in LinkCallPaths :
        LET r == ReadValueCall(heap, store, "Store", P)
        IN  /\ LinkCalled(r)
            /\ last' = Logged("read_value", "Store", P, Void,
                              StoreGetCell(heap, store, P), r)
LinkReadRef ==
    \E P \in LinkCallPaths :
        LET r == StoreReadRef(heap, store, P)
        IN  /\ LinkCalled(r)
            /\ last' = Logged("read_ref", "Store", P, Void, r.result.v, r)
LinkWriteValue ==
    \E P \in LinkCallPaths : \E V \in LinkValues :
        LET r == StoreWriteValue(heap, store, P, V)
            g == StoreReadRef(heap, store, P)
        IN  /\ LinkCalled(r)
            /\ last' = Logged("write_value", "Store", P, V, g.result.v, r)

NextLinks == LinkReadValue \/ LinkReadRef \/ LinkWriteValue \/ HostReturn
SpecLinks == Init /\ [][NextLinks]_vars

(* ==================== properties of stored CellRefs ===================== *)

\* The paths R and N, and the suffixes S.
LinkPaths == {P \in StorePaths : Len(P) = 1}
\* In the Store (h, root) the Cell at path R holds a CellRef to the Cell
\* found at path N.
Linked(h, root, R, N) ==
    LET c == StoreGetCell(h, root, R)
    IN  /\ c # NoCell /\ IsCellRef(h[c].value)
        /\ StoreGetCell(h, root, N) = h[c].value.v
SameBelow(h, root, R, N) ==
    \A S \in LinkPaths :
        StoreReadValue(h, root, R \o S) = StoreReadValue(h, root, N \o S)

PlainlyLinked(h, root, R, N) ==
    /\ Linked(h, root, R, N)
    /\ ~IsCellRef(h[StoreGetCell(h, root, N)].value)
\* Every suffix leads to one and the same Cell, or to none, from R and N.
SameCellBelow(h, root, R, N) ==
    \A S \in LinkPaths :
        StoreGetCell(h, root, R \o S) = StoreGetCell(h, root, N \o S)
\* This step is a write_value to R + S or to N + S.
WritesBelow(R, N) ==
    /\ last'.op = "write_value"
    /\ \E S \in LinkPaths : last'.path \in {R \o S, N \o S}
\* What this write leaves at R + S is what N + S reads: both lead to the
\* Cell written, and to the value written unless the write went through a
\* CellRef or put one there.
ReadBackBoth(R, N) ==
    \A S \in LinkPaths :
        last'.path \in {R \o S, N \o S} =>
            /\ StoreGetCell(heap', store', R \o S) = last'.cell
            /\ StoreGetCell(heap', store', N \o S) = last'.cell
            /\ (~IsCellRef(last'.old) /\ ~IsCellRef(last'.value)) =>
                   /\ StoreReadValue(heap', store', R \o S) = last'.value
                   /\ StoreReadValue(heap', store', N \o S) = last'.value

RefTargets(h, stack) ==
    {stack[i].v : i \in {j \in 1..Len(stack) : IsCellRef(stack[j])}}
      \cup {h[c].value.v : c \in {d \in DOMAIN h : IsCellRef(h[d].value)}}
\* This step is a write_ref(P, Void) on a path that had a Cell.
DeletesPath ==
    /\ last'.op = "write_ref" /\ IsVoid(last'.value) /\ last'.cell # NoCell
\* This step leaves a Block.execute, returning or unwinding.
LeavesBlock == Top.kind = "Block" /\ frames' = Pop(frames)
\* The Cell a CellRef taken from the deleted path designates is as it was,
\* value and children.
DeletedIntact ==
    /\ GetCell(heap', RootAfter(last'.on), last'.on, last'.path) = NoCell
    /\ heap'[last'.cell] = heap[last'.cell]
\* The Register of the Block is gone and every Cell a CellRef designates is
\* as it was.
EscapedIntact ==
    /\ Top.register \notin DOMAIN regs'
    /\ \A c \in RefTargets(heap', al') : c \in DOMAIN heap /\ heap'[c] = heap[c]

\* C31: a CellRef keeps its Cell alive and intact: a write_ref(P, Void)
\* that deletes the path leaves the Cell the path led to with its value and
\* children, and when a Block returns and its Register is discarded every
\* Cell a CellRef on the AL or in a Cell designates keeps its value.
C31_CellRefKeepsCell ==
    [][/\ DeletesPath => DeletedIntact
       /\ LeavesBlock => EscapedIntact]_vars
\* The Store keeps a CellRef to the Cell of a deleted path, with its child,
\* and the AL one to the root Cell of the Register of a Block that returned.
C31_Witness ==
    /\ frames = <<>> /\ Running /\ "a" \notin DOMAIN store
    /\ "r" \in DOMAIN store /\ IsCellRef(heap[store["r"]].value)
    /\ heap[store["r"]].value.v \notin Held
    /\ DOMAIN heap[heap[store["r"]].value.v].children = {"b"}
    /\ Len(al) = 1 /\ IsCellRef(al[1]) /\ al[1].v \notin Held
    /\ heap[al[1].v].value = IntV(1)

(* ================== properties of failing executions ==================== *)

\* An error is on its way out of the executions in progress.
Unwinding == ~Running /\ frames # <<>>
\* This step takes the error out of one activation.
Unwinds == Unwinding /\ frames' = Pop(frames)
\* The Registers other than the one of the activation left are untouched.
OthersKept ==
    \A r \in DOMAIN regs' : r \in DOMAIN regs /\ regs'[r] = regs[r]
\* What Block.execute saved at the call is what the VM has again.
RestoredOnError ==
    IF Top.kind = "Block"
    THEN /\ register' = Top.saved_register
         /\ current_block' = Top.saved_block
         /\ Top.register \notin DOMAIN regs'
    ELSE register' = register /\ current_block' = current_block
\* The error has left VM.execute.
HostFailed == ~Running /\ frames = <<>>

\* C37: while an error propagates every activation left restores what its
\* Block.execute saved and changes neither AL nor Store nor any Cell; no
\* step inside a Block changes the root of the top-level Register; when the
\* error has left VM.execute there is no current Block and vm.register is
\* the top-level Register.
C37_RestoreOnFailure ==
    [][/\ Unwinds =>
            /\ RestoredOnError /\ OthersKept
            /\ al' = al /\ store' = store /\ heap' = heap /\ error' = error
       /\ BlockDepth > 0 =>
            /\ TopRegister \in DOMAIN regs'
            /\ regs'[TopRegister] = regs[TopRegister]
       /\ HostFailed' =>
            /\ current_block' = NoBlock /\ register' = TopRegister
            /\ DOMAIN regs' = {TopRegister} /\ alive' = 1]_vars
\* The error raised two Blocks deep has reached the host: the AL holds the 5
\* pushed before it, the Store the 7 written, the top-level Register its 1.
C37_Witness ==
    /\ HostFailed /\ error = NothingToExecute
    /\ al = <<IntV(5)>>
    /\ StoreReadValue(heap, store, <<"counter">>) = IntV(7)
    /\ register = TopRegister /\ current_block = NoBlock
    /\ RegisterReadValue(heap, regs[TopRegister], <<"_">>) = IntV(1)

(* ==================== properties of Block literals ====================== *)

\* The statement of the running program or Block body that is next.
NextStatement == CHOOSE s \in Pending : TRUE
\* The Block.execute in progress that is innermost.
InnermostExecuting ==
    LET blocks == {i \in 1..Len(frames) : frames[i].kind = "Block"}
    IN  frames[CHOOSE i \in blocks : \A j \in blocks : j <= i].block
\* This step runs the RunNode of a Block literal.
RunsLiteral ==
    /\ Running /\ Pending # {} /\ NextStatement.k = "BlockNode"
    /\ frames' = Advanced
\* This step runs the block builtin inside a Block.
RunsBlockBuiltin == last'.op = "block" /\ error' = Ok

\* C36: a RunNode compiled from a Block literal pushes the one Block object
\* compile_node built for the literal, every time and in every invocation;
\* an Exec of that object runs it as vm.current_block, and `block` in its
\* body pushes that same object.
C36_BlockLiteralConstant ==
    [][/\ RunsLiteral => al' = Append(al, BlockV(NextStatement.n))
       /\ (Len(frames') > Len(frames) /\ Top'.kind = "Block") =>
              /\ last'.op = "exec" => last'.value = BlockV(Top'.block)
              /\ Top.kind = "chain" => Top.next = BlockV(Top'.block)
              /\ current_block' = Top'.block
       /\ RunsBlockBuiltin =>
              /\ al' = Append(al, BlockV(InnermostExecuting))
              /\ current_block = InnermostExecuting]_vars
\* The literal { >block } was run in two invocations of the enclosing Block
\* and executed once: what its body pushed and what the second run of the
\* literal pushed are the object the Store holds.
C36_Witness ==
    /\ frames = <<>> /\ Running
    /\ al = <<BlockV(Self), BlockV(Self)>>
    /\ StoreReadValue(heap, store, <<"made">>) = BlockV(Self)

(* ======================= properties of chain steps ====================== *)

\* This step is chain starting to execute a Block: `thing.execute(vm)`.
ChainStartsBlock ==
    /\ Top.kind = "chain" /\ Top.next.t = "Block"
    /\ Len(frames') = Len(frames) + 1 /\ Top'.kind = "Block"
\* The Block.execute calls in progress when a chain activation is innermost.
DepthAtChain(fs) == Cardinality({i \in 1..Len(fs) : fs[i].kind = "Block"})
\* The VM is as the caller of chain left it: no Block.execute of an earlier
\* iteration is in progress, and its Register is gone.
BackAtCaller ==
    /\ register = Top.saved_register /\ current_block = Top.saved_block
    /\ Cardinality(DOMAIN regs) = DepthAtChain(frames) + 1
    /\ alive = DepthAtChain(frames) + 1
\* The Block starts one level below the caller with a Register of its own
\* in which nothing can be read.
StartsAfresh ==
    /\ DepthAtChain(frames') = DepthAtChain(frames) + 1
    /\ Top'.saved_register = Top.saved_register
    /\ Top'.saved_block = Top.saved_block
    /\ register' \notin DOMAIN regs
    /\ regs'[register'] = EmptyDict
    /\ RegisterReadValue(heap', regs'[register'], <<"_">>) = UndefinedPath

\* C38: whenever chain starts to execute a Block, the one it executed before
\* has returned: vm.register and vm.current_block are those of chain's
\* caller and no Register of an earlier iteration is left; the Block runs
\* one level below the caller in every iteration, with an empty Register in
\* which `_` cannot be read.
C38_Trampoline ==
    [][ChainStartsBlock => (BackAtCaller /\ StartsAfresh)]_vars
\* The second iteration of the counting Block begins: the first has written
\* its Register and counted, and the Register is empty again.
C38_Witness ==
    /\ Running /\ Len(frames) = 3 /\ Top.kind = "Block" /\ Top.block = Stepper
    /\ Top.pc = 1 /\ frames[2].kind = "chain" /\ frames[2].runs = 2
    /\ StoreReadValue(heap, store, <<"counter">>) = IntV(1)
    /\ regs[register] = EmptyDict /\ DepthAtChain(frames) = 1
    /\ RegisterReadValue(heap, regs[TopRegister], <<"_">>) = IntV(1)

(* ================= properties of BuiltinBlock executions ================ *)

\* This step is the call of the host function of a BuiltinBlock.
CallsBuiltin == \E i \in 1..Len(BuiltinNames) : last'.op = BuiltinNames[i]
\* The step installs no Register and no Block: the host function meets the
\* Register and the current Block of its caller.
InCallersContext ==
    /\ register' = register /\ current_block' = current_block
    /\ regs' = regs /\ alive' = alive
    /\ DepthAtChain(frames') = DepthAtChain(frames)
\* `block` called inside a Block pushes that Block.
BlockPushesCaller ==
    (last'.op = "block" /\ current_block # NoBlock) =>
        /\ error' = Ok
        /\ al' = Append(al, BlockV(current_block))
        /\ current_block = InnermostExecuting
\* chain returns with the Register and current Block it was called with.
ChainReturnsToContext ==
    last'.op = "chain returned" =>
        /\ register' = Top.saved_register /\ current_block' = Top.saved_block
        /\ regs' = regs

\* C39: the execution of a BuiltinBlock, by an Exec statement or by chain,
\* installs no Register and leaves vm.current_block alone, so `block` in
\* the body of a Block pushes that Block; when the BuiltinBlock returns,
\* vm.register and vm.current_block are what they were.
C39_BuiltinInCallersContext ==
    [][/\ CallsBuiltin => (InCallersContext /\ BlockPushesCaller)
       /\ ChainReturnsToContext]_vars
\* `block` has run in the body of a Block that chain executes: it pushed
\* that Block, and the Register is still the one of the Block.
C39_Witness ==
    /\ last.op = "block" /\ Running /\ Len(frames) >= 2
    /\ Top.kind = "Block" /\ frames[Len(frames) - 1].kind = "chain"
    /\ al # <<>> /\ al[Len(al)] = BlockV(Top.block)
    /\ register = Top.register /\ current_block = Top.block
    /\ register # TopRegister

(* =================== properties of the debug builtins ================== *)

\* This step is a call of debug.choose on an AL of at least three values.
DebugChooses == last'.op = "debug.choose" /\ Len(al) >= 3

\* C33: for every AL of at least three values and every condition,
\* debug.choose leaves exactly the AL that choose leaves.
C33_DebugChooseAsChoose ==
    [][DebugChooses => (al' = builtin_choose(al).al /\ error' = error)]_vars

\* This step is a call of debug.chain on an AL that is not empty.
DebugChainCalledOn == last'.op = "debug.chain" /\ al # <<>>
\* The call does to the AL what builtin_chain does up to its loop: an
\* executable value is popped to be executed, any other value stays.
CalledAsChain ==
    IF IsExecutable(Peek(al))
    THEN /\ al' = Pop(al) /\ Len(frames') = Len(frames) + 1
         /\ Top'.next = Peek(al)
    ELSE al' = al /\ Len(frames') = Len(frames)
\* debug.chain holds a Block it has popped.
DebugChainHoldsBlock ==
    Running /\ Top.kind = "debug.chain" /\ Top.next.t = "Block"
\* The Block popped is executed, as builtin_chain executes every Block it
\* pops.
ExecutedAsChain ==
    /\ Len(frames') = Len(frames) + 1
    /\ Top'.kind = "Block" /\ Top'.block = Top.next.v
    /\ al' = al

\* C34: debug.chain executes the same Blocks in the same order and leaves
\* the same AL and Store as chain; its iteration limit never alters the
\* result.
C34_DebugChainAsChain ==
    [][/\ DebugChainCalledOn => CalledAsChain
       /\ DebugChainHoldsBlock => ExecutedAsChain]_vars

====
